---- MODULE Spec2Model ----
(***************************************************************************)
(* Model of the environmental-value synthesis engine of                    *)
(* envpredictor/predictor.py (HighAccuracyEnvironmentalPredictor).         *)
(*                                                                         *)
(* Numbers.  The code computes in binary floating point; the model uses    *)
(* exact integer fixed point:                                              *)
(*   - coordinates in tenths of a degree (40.7 deg -> 407);                *)
(*   - sensor values in thousandths of their unit (18.0 C -> 18000);       *)
(*   - dimensionless factors (activity, sin, cos, exp) in units of 1e-4.   *)
(* x \div y rounds towards minus infinity.                                 *)
(***************************************************************************)
EXTENDS Integers, Sequences, FiniteSets, TLC

VARIABLES
    regional_base_values,  \* self.regional_base_values
    seasonal_params,       \* self.seasonal_params
    diurnal_params,        \* self.diurnal_params
    calibration_factors,   \* self.calibration_factors
    model,                 \* self.model: which function the loaded model is
    rng,                   \* the state of the generator of the random module
    noise_fixed,           \* TRUE when random.uniform is replaced by 0
    req,                   \* the running predict calls, by caller
    log,                   \* the first result a caller remembered
    fin,                   \* the argument of the pure function under check
    fout,                  \* its result, or NoValue before it was applied
    fpc                    \* "in" before the application, "out" after it

tables == <<regional_base_values, seasonal_params, diurnal_params,
            calibration_factors>>

predictor == <<tables, model, rng, noise_fixed, req, log>>

harness == <<fin, fout, fpc>>

vars == <<predictor, harness>>

NoValue == "none"

(***************************************************************************)
(* Fixed-point helpers                                                     *)
(***************************************************************************)
Abs(x) == IF x < 0 THEN -x ELSE x

Min(a, b) == IF a < b THEN a ELSE b

Max(a, b) == IF a > b THEN a ELSE b

\* a * b for two factors in units of 1e-4
Mul4(a, b) == (a * b) \div 10000

\* v * f for a value v and a factor f in units of 1e-4, rounded down, without
\* an intermediate product beyond 32 bits
MulF(v, f) == (v \div 10000) * f + ((v % 10000) * f) \div 10000

\* (10000 * a) \div b for a >= 0 and b > 0 by long division, four decimal
\* digits after the integer quotient q with remainder r
RECURSIVE DivStep(_, _, _, _)
DivStep(q, r, b, n) ==
    IF n = 0 THEN q
    ELSE DivStep(10 * q + (10 * r) \div b, (10 * r) % b, b, n - 1)

Div4(a, b) == DivStep(a \div b, a % b, b, 4)

\* the Taylor sum 1 + x + x^2/2! + ... continued from term t = x^(k-1)/(k-1)!
\* until the terms vanish; x >= 0 in units of 1e-4
RECURSIVE ExpSum(_, _, _)
ExpSum(x, t, k) ==
    IF t = 0 THEN 0 ELSE t + ExpSum(x, (t * x) \div (10000 * k), k + 1)

\* math.exp(x) for -3 <= x <= 3, x and the result in units of 1e-4
Exp4(x) ==
    IF x >= 0 THEN ExpSum(x, 10000, 1)
    ELSE 100000000 \div ExpSum(-x, 10000, 1)

\* sin and cos of an angle x in [0, pi/2], in units of 1e-4 (Taylor, 5 terms)
SinQ(x) ==
    LET x2 == Mul4(x, x)
        t3 == Mul4(x, x2) \div 6
        t5 == Mul4(t3, x2) \div 20
        t7 == Mul4(t5, x2) \div 42
        t9 == Mul4(t7, x2) \div 72
    IN x - t3 + t5 - t7 + t9

CosQ(x) ==
    LET x2 == Mul4(x, x)
        t2 == x2 \div 2
        t4 == Mul4(t2, x2) \div 12
        t6 == Mul4(t4, x2) \div 30
        t8 == Mul4(t6, x2) \div 56
    IN 10000 - t2 + t4 - t6 + t8

\* math.sin(2 * math.pi * p) and math.cos(2 * math.pi * p) for a progress
\* p in [0, 1], p and the result in units of 1e-4: the quarter turn p falls
\* in, then the series on the rest
SinTurn(p) ==
    LET q == p \div 2500
        x == ((p % 2500) * 62832) \div 10000
    IN CASE q = 0 -> SinQ(x)
         [] q = 1 -> CosQ(x)
         [] q = 2 -> -SinQ(x)
         [] q = 3 -> -CosQ(x)
         [] OTHER -> SinQ(x)

CosTurn(p) ==
    LET q == p \div 2500
        x == ((p % 2500) * 62832) \div 10000
    IN CASE q = 0 -> CosQ(x)
         [] q = 1 -> -SinQ(x)
         [] q = 2 -> -CosQ(x)
         [] q = 3 -> SinQ(x)
         [] OTHER -> CosQ(x)

(***************************************************************************)
(* region.py: RegionType                                                   *)
(***************************************************************************)
RegionType == {"OCEAN", "COASTAL", "FOREST_TROPICAL", "FOREST_TEMPERATE",
               "GRASSLAND", "DESERT", "TUNDRA", "URBAN", "MOUNTAIN",
               "AGRICULTURAL"}

(***************************************************************************)
(* _determine_region_type: the conditions of the cascade, one operator per *)
(* if-statement.  lat, lon are in tenths of a degree.                      *)
(***************************************************************************)
OceanRuleClosed(lat, lon) ==
    /\ Abs(lat) < 300
    /\ \/ (0 <= lon /\ lon < 200)
       \/ (600 < lon /\ lon < 1000)
       \/ (1400 < lon /\ lon < 1800)
       \/ (-1400 < lon /\ lon < -600)
       \/ (-200 < lon /\ lon <= 0)

OceanRule(lat, lon) ==
    /\ Abs(lat) < 300
    /\ \/ (0 < lon /\ lon < 200)
       \/ (600 < lon /\ lon < 1000)
       \/ (1400 < lon /\ lon < 1800)
       \/ (-1400 < lon /\ lon < -600)
       \/ (-200 < lon /\ lon < 0)

DesertRule(lat, lon) ==
    \/ (150 < lat /\ lat < 350 /\ -1200 < lon /\ lon < -800)
    \/ (150 < lat /\ lat < 300 /\ -100 < lon /\ lon < 500)
    \/ (200 < lat /\ lat < 350 /\ 500 < lon /\ lon < 800)
    \/ (-300 < lat /\ lat < -150 /\ 1150 < lon /\ lon < 1500)
    \/ (-300 < lat /\ lat < -150 /\ -800 < lon /\ lon < -600)

ForestTropicalRule(lat, lon) ==
    \/ (-100 < lat /\ lat < 100 /\ -800 < lon /\ lon < -500)
    \/ (-100 < lat /\ lat < 100 /\ 100 < lon /\ lon < 400)
    \/ (-100 < lat /\ lat < 100 /\ 900 < lon /\ lon < 1500)

ForestTemperateRule(lat, lon) ==
    \/ (400 < lat /\ lat < 600 /\ -100 < lon /\ lon < 300)
    \/ (400 < lat /\ lat < 600 /\ -1300 < lon /\ lon < -700)
    \/ (300 < lat /\ lat < 500 /\ 1200 < lon /\ lon < 1500)

TundraRule(lat, lon) == lat > 600 \/ lat < -600

MountainRule(lat, lon) ==
    \/ (350 < lat /\ lat < 450 /\ -1200 < lon /\ lon < -1050)
    \/ (-350 < lat /\ lat < -200 /\ -750 < lon /\ lon < -600)
    \/ (300 < lat /\ lat < 400 /\ 700 < lon /\ lon < 900)
    \/ (450 < lat /\ lat < 500 /\ 50 < lon /\ lon < 150)

CoastalRule(lat, lon) ==
    \/ Abs(lon) < 100
    \/ Abs(lon) > 1700
    \/ (Abs(lat) < 300 /\ Abs(lon) < 1000 /\ Abs(lon) > 800)

\* major_cities, in the order of the list
major_cities == <<
    <<407, -740>>, <<515, -1>>, <<357, 1397>>, <<191, 729>>,
    <<341, -1182>>, <<419, 125>>, <<-235, -466>>, <<300, 312>>,
    <<399, 1164>>, <<558, 376>> >>

UrbanRule(lat, lon) ==
    \E i \in DOMAIN major_cities :
        /\ Abs(lat - major_cities[i][1]) < 10
        /\ Abs(lon - major_cities[i][2]) < 15

AgriculturalRule(lat, lon) ==
    \/ (250 < lat /\ lat < 500 /\ -1050 < lon /\ lon < -750)
    \/ (450 < lat /\ lat < 550 /\ -50 < lon /\ lon < 300)
    \/ (-400 < lat /\ lat < -200 /\ -650 < lon /\ lon < -500)
    \/ (200 < lat /\ lat < 400 /\ 700 < lon /\ lon < 1000)

\* the cascade with the city boxes tested first (a plausible reordering)
DetermineRegionTypeCitiesFirst(lat, lon) ==
    IF UrbanRule(lat, lon) THEN "URBAN"
    ELSE IF OceanRule(lat, lon) THEN "OCEAN"
    ELSE IF DesertRule(lat, lon) THEN "DESERT"
    ELSE IF ForestTropicalRule(lat, lon) THEN "FOREST_TROPICAL"
    ELSE IF ForestTemperateRule(lat, lon) THEN "FOREST_TEMPERATE"
    ELSE IF TundraRule(lat, lon) THEN "TUNDRA"
    ELSE IF MountainRule(lat, lon) THEN "MOUNTAIN"
    ELSE IF CoastalRule(lat, lon) THEN "COASTAL"
    ELSE IF AgriculturalRule(lat, lon) THEN "AGRICULTURAL"
    ELSE "GRASSLAND"

\* the cascade with a coastal rule that holds at every longitude
DetermineRegionTypeWideCoast(lat, lon) ==
    IF OceanRule(lat, lon) THEN "OCEAN"
    ELSE IF DesertRule(lat, lon) THEN "DESERT"
    ELSE IF ForestTropicalRule(lat, lon) THEN "FOREST_TROPICAL"
    ELSE IF ForestTemperateRule(lat, lon) THEN "FOREST_TEMPERATE"
    ELSE IF TundraRule(lat, lon) THEN "TUNDRA"
    ELSE IF MountainRule(lat, lon) THEN "MOUNTAIN"
    ELSE IF CoastalRule(lat, lon) \/ Abs(lon) <= 1800 THEN "COASTAL"
    ELSE IF UrbanRule(lat, lon) THEN "URBAN"
    ELSE IF AgriculturalRule(lat, lon) THEN "AGRICULTURAL"
    ELSE "GRASSLAND"

DetermineRegionType(lat, lon) ==
    IF OceanRule(lat, lon) THEN "OCEAN"
    ELSE IF DesertRule(lat, lon) THEN "DESERT"
    ELSE IF ForestTropicalRule(lat, lon) THEN "FOREST_TROPICAL"
    ELSE IF ForestTemperateRule(lat, lon) THEN "FOREST_TEMPERATE"
    ELSE IF TundraRule(lat, lon) THEN "TUNDRA"
    ELSE IF MountainRule(lat, lon) THEN "MOUNTAIN"
    ELSE IF CoastalRule(lat, lon) THEN "COASTAL"
    ELSE IF UrbanRule(lat, lon) THEN "URBAN"
    ELSE IF AgriculturalRule(lat, lon) THEN "AGRICULTURAL"
    ELSE "GRASSLAND"

(***************************************************************************)
(* __init__: the static tables of the predictor                            *)
(***************************************************************************)
\* self.regional_base_values (lines 55-166), in thousandths
RegionalBaseValues ==
    "OCEAN" :>
        ("temperature" :> 18000 @@ "humidity" :> 85000 @@ "pressure" :> 1013250 @@
         "gas_resistance" :> 80000000 @@ "CO2" :> 410000 @@ "VOC" :> 80000 @@
         "PM1.0" :> 2000 @@ "PM2.5" :> 3000 @@ "PM10" :> 4000) @@
    "COASTAL" :>
        ("temperature" :> 22000 @@ "humidity" :> 75000 @@ "pressure" :> 1013000 @@
         "gas_resistance" :> 60000000 @@ "CO2" :> 420000 @@ "VOC" :> 120000 @@
         "PM1.0" :> 5000 @@ "PM2.5" :> 8000 @@ "PM10" :> 10000) @@
    "FOREST_TROPICAL" :>
        ("temperature" :> 26000 @@ "humidity" :> 85000 @@ "pressure" :> 1012000 @@
         "gas_resistance" :> 50000000 @@ "CO2" :> 430000 @@ "VOC" :> 200000 @@
         "PM1.0" :> 4000 @@ "PM2.5" :> 6000 @@ "PM10" :> 8000) @@
    "FOREST_TEMPERATE" :>
        ("temperature" :> 18000 @@ "humidity" :> 70000 @@ "pressure" :> 1013000 @@
         "gas_resistance" :> 55000000 @@ "CO2" :> 425000 @@ "VOC" :> 150000 @@
         "PM1.0" :> 3000 @@ "PM2.5" :> 5000 @@ "PM10" :> 7000) @@
    "GRASSLAND" :>
        ("temperature" :> 20000 @@ "humidity" :> 60000 @@ "pressure" :> 1013000 @@
         "gas_resistance" :> 50000000 @@ "CO2" :> 420000 @@ "VOC" :> 100000 @@
         "PM1.0" :> 4000 @@ "PM2.5" :> 6000 @@ "PM10" :> 9000) @@
    "DESERT" :>
        ("temperature" :> 30000 @@ "humidity" :> 20000 @@ "pressure" :> 1012000 @@
         "gas_resistance" :> 30000000 @@ "CO2" :> 415000 @@ "VOC" :> 50000 @@
         "PM1.0" :> 10000 @@ "PM2.5" :> 25000 @@ "PM10" :> 50000) @@
    "TUNDRA" :>
        ("temperature" :> -5000 @@ "humidity" :> 70000 @@ "pressure" :> 1015000 @@
         "gas_resistance" :> 70000000 @@ "CO2" :> 410000 @@ "VOC" :> 30000 @@
         "PM1.0" :> 2000 @@ "PM2.5" :> 3000 @@ "PM10" :> 4000) @@
    "URBAN" :>
        ("temperature" :> 24000 @@ "humidity" :> 65000 @@ "pressure" :> 1012000 @@
         "gas_resistance" :> 40000000 @@ "CO2" :> 450000 @@ "VOC" :> 300000 @@
         "PM1.0" :> 10000 @@ "PM2.5" :> 20000 @@ "PM10" :> 30000) @@
    "MOUNTAIN" :>
        ("temperature" :> 12000 @@ "humidity" :> 60000 @@ "pressure" :> 900000 @@
         "gas_resistance" :> 60000000 @@ "CO2" :> 415000 @@ "VOC" :> 80000 @@
         "PM1.0" :> 3000 @@ "PM2.5" :> 5000 @@ "PM10" :> 7000) @@
    "AGRICULTURAL" :>
        ("temperature" :> 22000 @@ "humidity" :> 65000 @@ "pressure" :> 1013000 @@
         "gas_resistance" :> 45000000 @@ "CO2" :> 435000 @@ "VOC" :> 180000 @@
         "PM1.0" :> 6000 @@ "PM2.5" :> 12000 @@ "PM10" :> 15000)

\* self.calibration_factors (lines 169-180), in units of 1e-4
CalibrationFactors ==
    "urban" :> ("CO2" :> 11000 @@ "VOC" :> 12000 @@ "PM" :> 13000) @@
    "rural" :> ("CO2" :> 10000 @@ "VOC" :> 10000 @@ "PM" :> 10000)

\* self.seasonal_params (lines 183-336): shifts in thousandths, factors in 1e-4
SeasonalParams ==
    "summer" :>
        ("temp_shift" :>
            ("OCEAN" :> 2000 @@ "COASTAL" :> 4000 @@ "FOREST_TROPICAL" :> 1000 @@
             "FOREST_TEMPERATE" :> 6000 @@ "GRASSLAND" :> 8000 @@ "DESERT" :> 12000 @@
             "TUNDRA" :> 10000 @@ "URBAN" :> 5000 @@ "MOUNTAIN" :> 4000 @@
             "AGRICULTURAL" :> 6000) @@
         "humidity_shift" :>
            ("OCEAN" :> 5000 @@ "COASTAL" :> 10000 @@ "FOREST_TROPICAL" :> 5000 @@
             "FOREST_TEMPERATE" :> 15000 @@ "GRASSLAND" :> -10000 @@ "DESERT" :> -5000 @@
             "TUNDRA" :> 20000 @@ "URBAN" :> 5000 @@ "MOUNTAIN" :> 5000 @@
             "AGRICULTURAL" :> 8000) @@
         "pollution_factor" :>
            ("OCEAN" :> 11000 @@ "COASTAL" :> 12000 @@ "FOREST_TROPICAL" :> 11000 @@
             "FOREST_TEMPERATE" :> 11000 @@ "GRASSLAND" :> 13000 @@ "DESERT" :> 15000 @@
             "TUNDRA" :> 10000 @@ "URBAN" :> 14000 @@ "MOUNTAIN" :> 11000 @@
             "AGRICULTURAL" :> 13000)) @@
    "winter" :>
        ("temp_shift" :>
            ("OCEAN" :> -1000 @@ "COASTAL" :> -3000 @@ "FOREST_TROPICAL" :> 0 @@
             "FOREST_TEMPERATE" :> -8000 @@ "GRASSLAND" :> -10000 @@ "DESERT" :> -5000 @@
             "TUNDRA" :> -25000 @@ "URBAN" :> -4000 @@ "MOUNTAIN" :> -6000 @@
             "AGRICULTURAL" :> -5000) @@
         "humidity_shift" :>
            ("OCEAN" :> 0 @@ "COASTAL" :> 5000 @@ "FOREST_TROPICAL" :> 0 @@
             "FOREST_TEMPERATE" :> -5000 @@ "GRASSLAND" :> -5000 @@ "DESERT" :> -3000 @@
             "TUNDRA" :> -10000 @@ "URBAN" :> -5000 @@ "MOUNTAIN" :> -5000 @@
             "AGRICULTURAL" :> -3000) @@
         "pollution_factor" :>
            ("OCEAN" :> 10000 @@ "COASTAL" :> 11000 @@ "FOREST_TROPICAL" :> 10000 @@
             "FOREST_TEMPERATE" :> 12000 @@ "GRASSLAND" :> 14000 @@ "DESERT" :> 12000 @@
             "TUNDRA" :> 15000 @@ "URBAN" :> 16000 @@ "MOUNTAIN" :> 13000 @@
             "AGRICULTURAL" :> 14000)) @@
    "spring" :>
        ("temp_shift" :>
            ("OCEAN" :> 1000 @@ "COASTAL" :> 2000 @@ "FOREST_TROPICAL" :> 500 @@
             "FOREST_TEMPERATE" :> 3000 @@ "GRASSLAND" :> 4000 @@ "DESERT" :> 6000 @@
             "TUNDRA" :> 5000 @@ "URBAN" :> 2000 @@ "MOUNTAIN" :> 2000 @@
             "AGRICULTURAL" :> 3000) @@
         "humidity_shift" :>
            ("OCEAN" :> 2000 @@ "COASTAL" :> 8000 @@ "FOREST_TROPICAL" :> 3000 @@
             "FOREST_TEMPERATE" :> 10000 @@ "GRASSLAND" :> 5000 @@ "DESERT" :> 2000 @@
             "TUNDRA" :> 15000 @@ "URBAN" :> 3000 @@ "MOUNTAIN" :> 3000 @@
             "AGRICULTURAL" :> 5000) @@
         "pollution_factor" :>
            ("OCEAN" :> 10000 @@ "COASTAL" :> 11000 @@ "FOREST_TROPICAL" :> 10000 @@
             "FOREST_TEMPERATE" :> 11000 @@ "GRASSLAND" :> 12000 @@ "DESERT" :> 13000 @@
             "TUNDRA" :> 11000 @@ "URBAN" :> 13000 @@ "MOUNTAIN" :> 11000 @@
             "AGRICULTURAL" :> 12000)) @@
    "fall" :>
        ("temp_shift" :>
            ("OCEAN" :> 500 @@ "COASTAL" :> 1000 @@ "FOREST_TROPICAL" :> 500 @@
             "FOREST_TEMPERATE" :> 2000 @@ "GRASSLAND" :> 3000 @@ "DESERT" :> 4000 @@
             "TUNDRA" :> 2000 @@ "URBAN" :> 1000 @@ "MOUNTAIN" :> 1000 @@
             "AGRICULTURAL" :> 2000) @@
         "humidity_shift" :>
            ("OCEAN" :> 1000 @@ "COASTAL" :> 5000 @@ "FOREST_TROPICAL" :> 2000 @@
             "FOREST_TEMPERATE" :> 8000 @@ "GRASSLAND" :> 3000 @@ "DESERT" :> 1000 @@
             "TUNDRA" :> 10000 @@ "URBAN" :> 2000 @@ "MOUNTAIN" :> 2000 @@
             "AGRICULTURAL" :> 3000) @@
         "pollution_factor" :>
            ("OCEAN" :> 10000 @@ "COASTAL" :> 11000 @@ "FOREST_TROPICAL" :> 10000 @@
             "FOREST_TEMPERATE" :> 12000 @@ "GRASSLAND" :> 13000 @@ "DESERT" :> 14000 @@
             "TUNDRA" :> 12000 @@ "URBAN" :> 14000 @@ "MOUNTAIN" :> 12000 @@
             "AGRICULTURAL" :> 13000))

\* self.diurnal_params (lines 339-492): shifts in thousandths, factors in 1e-4
DiurnalParams ==
    "morning" :>
        ("temp_shift" :>
            ("OCEAN" :> -500 @@ "COASTAL" :> -1000 @@ "FOREST_TROPICAL" :> -500 @@
             "FOREST_TEMPERATE" :> -1500 @@ "GRASSLAND" :> -2000 @@ "DESERT" :> -3000 @@
             "TUNDRA" :> -1000 @@ "URBAN" :> -1000 @@ "MOUNTAIN" :> -1500 @@
             "AGRICULTURAL" :> -1500) @@
         "humidity_shift" :>
            ("OCEAN" :> 5000 @@ "COASTAL" :> 10000 @@ "FOREST_TROPICAL" :> 5000 @@
             "FOREST_TEMPERATE" :> 10000 @@ "GRASSLAND" :> 15000 @@ "DESERT" :> 10000 @@
             "TUNDRA" :> 5000 @@ "URBAN" :> 8000 @@ "MOUNTAIN" :> 10000 @@
             "AGRICULTURAL" :> 12000) @@
         "pollution_factor" :>
            ("OCEAN" :> 10000 @@ "COASTAL" :> 11000 @@ "FOREST_TROPICAL" :> 10000 @@
             "FOREST_TEMPERATE" :> 11000 @@ "GRASSLAND" :> 12000 @@ "DESERT" :> 13000 @@
             "TUNDRA" :> 10000 @@ "URBAN" :> 13000 @@ "MOUNTAIN" :> 11000 @@
             "AGRICULTURAL" :> 12000)) @@
    "afternoon" :>
        ("temp_shift" :>
            ("OCEAN" :> 1000 @@ "COASTAL" :> 3000 @@ "FOREST_TROPICAL" :> 2000 @@
             "FOREST_TEMPERATE" :> 4000 @@ "GRASSLAND" :> 6000 @@ "DESERT" :> 10000 @@
             "TUNDRA" :> 3000 @@ "URBAN" :> 4000 @@ "MOUNTAIN" :> 3000 @@
             "AGRICULTURAL" :> 5000) @@
         "humidity_shift" :>
            ("OCEAN" :> -5000 @@ "COASTAL" :> -10000 @@ "FOREST_TROPICAL" :> -5000 @@
             "FOREST_TEMPERATE" :> -10000 @@ "GRASSLAND" :> -15000 @@ "DESERT" :> -5000 @@
             "TUNDRA" :> -5000 @@ "URBAN" :> -10000 @@ "MOUNTAIN" :> -10000 @@
             "AGRICULTURAL" :> -12000) @@
         "pollution_factor" :>
            ("OCEAN" :> 10000 @@ "COASTAL" :> 10000 @@ "FOREST_TROPICAL" :> 10000 @@
             "FOREST_TEMPERATE" :> 10000 @@ "GRASSLAND" :> 11000 @@ "DESERT" :> 12000 @@
             "TUNDRA" :> 10000 @@ "URBAN" :> 12000 @@ "MOUNTAIN" :> 10000 @@
             "AGRICULTURAL" :> 11000)) @@
    "evening" :>
        ("temp_shift" :>
            ("OCEAN" :> 500 @@ "COASTAL" :> 1000 @@ "FOREST_TROPICAL" :> 500 @@
             "FOREST_TEMPERATE" :> 1000 @@ "GRASSLAND" :> 2000 @@ "DESERT" :> 3000 @@
             "TUNDRA" :> 1000 @@ "URBAN" :> 1000 @@ "MOUNTAIN" :> 1000 @@
             "AGRICULTURAL" :> 1500) @@
         "humidity_shift" :>
            ("OCEAN" :> 3000 @@ "COASTAL" :> 8000 @@ "FOREST_TROPICAL" :> 3000 @@
             "FOREST_TEMPERATE" :> 8000 @@ "GRASSLAND" :> 10000 @@ "DESERT" :> 5000 @@
             "TUNDRA" :> 3000 @@ "URBAN" :> 5000 @@ "MOUNTAIN" :> 5000 @@
             "AGRICULTURAL" :> 8000) @@
         "pollution_factor" :>
            ("OCEAN" :> 11000 @@ "COASTAL" :> 12000 @@ "FOREST_TROPICAL" :> 11000 @@
             "FOREST_TEMPERATE" :> 12000 @@ "GRASSLAND" :> 13000 @@ "DESERT" :> 14000 @@
             "TUNDRA" :> 11000 @@ "URBAN" :> 14000 @@ "MOUNTAIN" :> 12000 @@
             "AGRICULTURAL" :> 13000)) @@
    "night" :>
        ("temp_shift" :>
            ("OCEAN" :> -1000 @@ "COASTAL" :> -2000 @@ "FOREST_TROPICAL" :> -1000 @@
             "FOREST_TEMPERATE" :> -3000 @@ "GRASSLAND" :> -4000 @@ "DESERT" :> -8000 @@
             "TUNDRA" :> -2000 @@ "URBAN" :> -2000 @@ "MOUNTAIN" :> -3000 @@
             "AGRICULTURAL" :> -3000) @@
         "humidity_shift" :>
            ("OCEAN" :> 8000 @@ "COASTAL" :> 15000 @@ "FOREST_TROPICAL" :> 8000 @@
             "FOREST_TEMPERATE" :> 15000 @@ "GRASSLAND" :> 20000 @@ "DESERT" :> 15000 @@
             "TUNDRA" :> 10000 @@ "URBAN" :> 12000 @@ "MOUNTAIN" :> 15000 @@
             "AGRICULTURAL" :> 18000) @@
         "pollution_factor" :>
            ("OCEAN" :> 9000 @@ "COASTAL" :> 9000 @@ "FOREST_TROPICAL" :> 9000 @@
             "FOREST_TEMPERATE" :> 9000 @@ "GRASSLAND" :> 9000 @@ "DESERT" :> 8000 @@
             "TUNDRA" :> 9000 @@ "URBAN" :> 10000 @@ "MOUNTAIN" :> 9000 @@
             "AGRICULTURAL" :> 9000))


Fields == {"temperature", "humidity", "pressure", "gas_resistance", "CO2",
           "VOC", "PM1.0", "PM2.5", "PM10"}

Seasons == {"spring", "summer", "fall", "winter"}

TimesOfDay == {"morning", "afternoon", "evening", "night"}

(***************************************************************************)
(* Timestamps.  A date string "YYYYMMDD" is modelled by the three numbers  *)
(* <<YYYY, MM, DD>> it spells and a time string "HH:MM" by <<HH, MM>>; a    *)
(* text of another shape is a tuple of another length.  None and the empty *)
(* string, both false in `time_str if time_str else`, are the empty tuple. *)
(***************************************************************************)
None == <<>>

IsLeap(y) == (y % 4 = 0 /\ y % 100 # 0) \/ y % 400 = 0

DaysInMonth(y, m) ==
    IF m = 2 THEN (IF IsLeap(y) THEN 29 ELSE 28)
    ELSE IF m \in {4, 6, 9, 11} THEN 30 ELSE 31

\* a raised exception, as a value
Exception(name) == [exception |-> name]

IsException(x) == "exception" \in DOMAIN x

\* datetime.strptime(f"{date_str} {time_str if time_str else '00:00'}",
\* "%Y%m%d %H:%M"): the datetime, or a ValueError when the text does not
\* spell a calendar date and a time of day
Strptime(date_str, time_str) ==
    LET t == IF time_str = None THEN <<0, 0>> ELSE time_str
    IN IF /\ Len(date_str) = 3
          /\ Len(t) = 2
          /\ date_str[1] \in 1..9999
          /\ date_str[2] \in 1..12
          /\ date_str[3] \in 1..DaysInMonth(date_str[1], date_str[2])
          /\ t[1] \in 0..23
          /\ t[2] \in 0..59
       THEN [year |-> date_str[1], month |-> date_str[2], day |-> date_str[3],
             hour |-> t[1], minute |-> t[2]]
       ELSE Exception("ValueError")

\* dt.timetuple().tm_yday
RECURSIVE DaysBefore(_, _)
DaysBefore(y, m) == IF m = 1 THEN 0 ELSE DaysBefore(y, m - 1) + DaysInMonth(y, m - 1)

YearDay(dt) == DaysBefore(dt.year, dt.month) + dt.day

(***************************************************************************)
(* _datetime_to_features                                                   *)
(***************************************************************************)
SeasonLateSpring(month) ==
    IF 3 < month /\ month <= 5 THEN "spring"
    ELSE IF 6 <= month /\ month <= 8 THEN "summer"
    ELSE IF 9 <= month /\ month <= 11 THEN "fall"
    ELSE "winter"

\* the third season under a name the tables do not have
SeasonAutumn(month) ==
    IF 3 <= month /\ month <= 5 THEN "spring"
    ELSE IF 6 <= month /\ month <= 8 THEN "summer"
    ELSE IF 9 <= month /\ month <= 11 THEN "autumn"
    ELSE "winter"

Season(month) ==
    IF 3 <= month /\ month <= 5 THEN "spring"
    ELSE IF 6 <= month /\ month <= 8 THEN "summer"
    ELSE IF 9 <= month /\ month <= 11 THEN "fall"
    ELSE "winter"

TimeOfDay(hour) ==
    IF 5 <= hour /\ hour < 11 THEN "morning"
    ELSE IF 11 <= hour /\ hour < 16 THEN "afternoon"
    ELSE IF 16 <= hour /\ hour < 21 THEN "evening"
    ELSE "night"

DatetimeToFeatures(dt) ==
    LET year_progress == ((YearDay(dt) - 1) * 10000) \div 365
        diurnal_progress == ((dt.hour * 60 + dt.minute) * 10000) \div (24 * 60)
    IN [year_progress |-> year_progress,
        seasonal_sin |-> SinTurn(year_progress),
        seasonal_cos |-> CosTurn(year_progress),
        diurnal_sin |-> SinTurn(diurnal_progress),
        diurnal_cos |-> CosTurn(diurnal_progress),
        season |-> Season(dt.month),
        time_of_day |-> TimeOfDay(dt.hour),
        hour |-> dt.hour,
        month |-> dt.month]

(***************************************************************************)
(* _get_elevation, in metres, and the elevation factor                     *)
(* 1.0 - min(1.0, elevation / 5000.0) in units of 1e-4                     *)
(***************************************************************************)
GetElevation(lat, lon) ==
    LET region == DetermineRegionType(lat, lon)
    IN IF region = "MOUNTAIN" THEN 2500
       ELSE IF region = "TUNDRA" THEN 200
       ELSE IF region = "OCEAN" THEN -50
       ELSE 100

ElevationFactor(elevation) == 10000 - Min(10000, (elevation * 10000) \div 5000)

(***************************************************************************)
(* _generate_synthetic_patch.  Of the 128 x 128 pixels of a frame the      *)
(* model keeps those of PixelDist: a pixel next to the centre (dist =      *)
(* 1/127), the middle of an edge and a corner, by their normalised         *)
(* distance from the centre in units of 1e-4.  The result is the three     *)
(* frames, each a sequence of pixel values in units of 1e-4.               *)
(***************************************************************************)
PixelDist == <<79, 7071, 10000>>

Pattern(region_type, dist) ==
    IF region_type = "OCEAN" THEN 3000 + Mul4(7000, Exp4(-(3 * dist)))
    ELSE IF region_type = "DESERT"
        THEN 5000 + Mul4(5000, SinTurn(((dist * 100000) \div 62832) % 10000))
    ELSE IF region_type = "URBAN" THEN 4000 + Mul4(6000, 10000 - Mul4(dist, dist))
    ELSE Max(2000, Exp4(-(2 * dist)))

GenerateSyntheticPatch(lat, lon, dt) ==
    LET region_type == DetermineRegionType(lat, lon)
        temporal_features == DatetimeToFeatures(dt)
        elevation == GetElevation(lat, lon)
        seasonal0 == (5 * temporal_features.seasonal_sin
                      + 2 * temporal_features.seasonal_cos) \div 10
        diurnal0 == (3 * temporal_features.diurnal_sin
                     + temporal_features.diurnal_cos) \div 10
        seasonal_effect ==
            IF region_type = "OCEAN" THEN Mul4(seasonal0, 7000)
            ELSE IF region_type = "DESERT" THEN Mul4(seasonal0, 12000)
            ELSE IF region_type = "URBAN" THEN Mul4(seasonal0, 9000)
            ELSE seasonal0
        diurnal_effect ==
            IF region_type = "OCEAN" THEN Mul4(diurnal0, 5000)
            ELSE IF region_type = "DESERT" THEN Mul4(diurnal0, 15000)
            ELSE IF region_type = "URBAN" THEN Mul4(diurnal0, 12000)
            ELSE diurnal0
        elevation_factor == ElevationFactor(elevation)
        clipped(i) ==
            Max(1000, Min(10000,
                Mul4(Mul4(Pattern(region_type, PixelDist[i]), 10000 + seasonal_effect),
                     10000 + diurnal_effect \div 2)))
        patch == [i \in DOMAIN PixelDist |-> Mul4(clipped(i), elevation_factor)]
    IN << [i \in DOMAIN PixelDist |-> Mul4(patch[i], 8500)],
          [i \in DOMAIN PixelDist |-> Mul4(patch[i], 9300)],
          patch >>

(***************************************************************************)
(* The loaded model is a function the code does not define: from the       *)
(* input patch to an output field of (mean, uncertainty) pairs, one pair   *)
(* per pixel, or an exception.  The model keeps a few such functions; the  *)
(* pairs are float32 values in units of 1e-7 (the epsilon of predict).     *)
(***************************************************************************)
ModelKinds == {"smooth", "constant", "spike", "biased", "failing"}

ModelPredict(kind, x) ==
    CASE kind = "smooth" ->
            [output |-> [i \in DOMAIN x[3] |-> <<x[3][i] * 1000, 500000>>]]
      [] kind = "constant" ->
            [output |-> [i \in DOMAIN x[3] |-> <<5000000, 0>>]]
      [] kind = "spike" ->
            [output |-> [i \in DOMAIN x[3] |->
                           <<IF i = 1 THEN x[1][1] * 1000 ELSE 0, 100000 * i>>]]
      [] kind = "biased" ->
            [output |-> [i \in DOMAIN x[3] |->
                           <<10000000 - x[3][i] * 1000, -2000000>>]]
      [] kind = "failing" -> Exception("RuntimeError")
      [] kind = "partial" ->
            IF x[3][1] > 8500 THEN Exception("RuntimeError")
            ELSE [output |-> [i \in DOMAIN x[3] |-> <<x[3][i] * 1000, 500000>>]]

(***************************************************************************)
(* float32.  The finite values are the integers of magnitude at most       *)
(* F32Max, which stands for the largest finite float32 scaled down to fit  *)
(* the model's integers; a result beyond it is an infinity, as in IEEE     *)
(* arithmetic, and rounding inside the range is not modelled.              *)
(***************************************************************************)
F32Max == 200000000

PInf == F32Max + 1

NInf == -(F32Max + 1)

NaN == F32Max + 2

IsFinite(x) == -F32Max <= x /\ x <= F32Max

F32Round(x) == IF x > F32Max THEN PInf ELSE IF x < -F32Max THEN NInf ELSE x

F32Add(a, b) ==
    IF a = NaN \/ b = NaN THEN NaN
    ELSE IF IsFinite(a) /\ IsFinite(b) THEN F32Round(a + b)
    ELSE IF IsFinite(a) THEN b
    ELSE IF IsFinite(b) \/ a = b THEN a
    ELSE NaN

F32Neg(a) == IF a = NaN THEN NaN ELSE -a

F32Sub(a, b) == F32Add(a, F32Neg(b))

\* a / b as a factor in units of 1e-4 (or an infinity, or NaN), for b > 0
F32Div(a, b) ==
    IF a = NaN \/ b = NaN THEN NaN
    ELSE IF IsFinite(a) /\ IsFinite(b)
        THEN IF a >= 0 THEN Div4(a, b) ELSE -Div4(-a, b)
    ELSE IF IsFinite(a) THEN 0
    ELSE IF IsFinite(b) THEN a
    ELSE NaN

RECURSIVE F32Sum(_, _)
F32Sum(f, n) == IF n = 0 THEN 0 ELSE F32Add(F32Sum(f, n - 1), f[n])

\* np.mean of a float32 array: the sum is accumulated in float32
NpMean(f) ==
    LET total == F32Sum(f, Len(f))
    IN IF IsFinite(total) THEN total \div Len(f) ELSE total

NpMin(f) == CHOOSE v \in {f[i] : i \in DOMAIN f} : \A i \in DOMAIN f : v <= f[i]

NpMax(f) == CHOOSE v \in {f[i] : i \in DOMAIN f} : \A i \in DOMAIN f : v >= f[i]

(***************************************************************************)
(* predict, lines 757-761 and 775: the two scalars taken from the model's  *)
(* output                                                                  *)
(***************************************************************************)
NormalizedMean(pred) ==
    LET mean_pred == [i \in DOMAIN pred |-> pred[i][1]]
        pred_mean == NpMean(mean_pred)
        pred_range == F32Sub(NpMax(mean_pred), NpMin(mean_pred))
    IN F32Div(F32Sub(pred_mean, NpMin(mean_pred)), F32Add(pred_range, 1))

MeanUncertainty(pred) == NpMean([i \in DOMAIN pred |-> pred[i][2]])

(***************************************************************************)
(* _apply_temporal_adjustments.  base_values is the record of the region   *)
(* inside self.regional_base_values, passed by reference: the result       *)
(* carries, beside the adjusted values, what that record holds afterwards. *)
(***************************************************************************)
Get(d, k, default) == IF k \in DOMAIN d THEN d[k] ELSE default

\* the multipliers of the other regions used for urban points too
AdjustedSameEverywhere(base_values, dt, region_type) ==
    LET temporal_features == DatetimeToFeatures(dt)
        season_params == Get(seasonal_params, temporal_features.season, <<>>)
        diurnal == Get(diurnal_params, temporal_features.time_of_day, <<>>)
        temp_shift == Get(Get(season_params, "temp_shift", <<>>), region_type, 0)
                      + Get(Get(diurnal, "temp_shift", <<>>), region_type, 0)
        humidity_shift ==
            Get(Get(season_params, "humidity_shift", <<>>), region_type, 0)
            + Get(Get(diurnal, "humidity_shift", <<>>), region_type, 0)
        season_pollution ==
            Get(Get(season_params, "pollution_factor", <<>>), region_type, 10000)
        diurnal_pollution ==
            Get(Get(diurnal, "pollution_factor", <<>>), region_type, 10000)
        pollution_factor == Mul4(season_pollution, diurnal_pollution)
        urban == FALSE
    IN [f \in DOMAIN base_values |->
         CASE f = "temperature" ->
                base_values[f]
                + MulF(temp_shift, 10000 + temporal_features.seasonal_sin \div 10)
           [] f = "humidity" ->
                Min(100000, Max(10000, base_values[f] + humidity_shift))
           [] f = "CO2" -> MulF(base_values[f], pollution_factor)
           [] f = "VOC" ->
                MulF(base_values[f],
                     Mul4(pollution_factor, IF urban THEN 12000 ELSE 11000))
           [] f = "PM1.0" -> MulF(base_values[f], pollution_factor)
           [] f = "PM2.5" ->
                MulF(base_values[f],
                     Mul4(pollution_factor, IF urban THEN 13000 ELSE 12000))
           [] f = "PM10" ->
                MulF(base_values[f],
                     Mul4(pollution_factor, IF urban THEN 14000 ELSE 12000))
           [] OTHER -> base_values[f]]

Adjusted(base_values, dt, region_type) ==
    LET temporal_features == DatetimeToFeatures(dt)
        season_params == Get(seasonal_params, temporal_features.season, <<>>)
        diurnal == Get(diurnal_params, temporal_features.time_of_day, <<>>)
        temp_shift == Get(Get(season_params, "temp_shift", <<>>), region_type, 0)
                      + Get(Get(diurnal, "temp_shift", <<>>), region_type, 0)
        humidity_shift ==
            Get(Get(season_params, "humidity_shift", <<>>), region_type, 0)
            + Get(Get(diurnal, "humidity_shift", <<>>), region_type, 0)
        season_pollution ==
            Get(Get(season_params, "pollution_factor", <<>>), region_type, 10000)
        diurnal_pollution ==
            Get(Get(diurnal, "pollution_factor", <<>>), region_type, 10000)
        pollution_factor == Mul4(season_pollution, diurnal_pollution)
        urban == region_type = "URBAN"
    IN [f \in DOMAIN base_values |->
         CASE f = "temperature" ->
                base_values[f]
                + MulF(temp_shift, 10000 + temporal_features.seasonal_sin \div 10)
           [] f = "humidity" ->
                Min(100000, Max(10000, base_values[f] + humidity_shift))
           [] f = "CO2" -> MulF(base_values[f], pollution_factor)
           [] f = "VOC" ->
                MulF(base_values[f],
                     Mul4(pollution_factor, IF urban THEN 12000 ELSE 11000))
           [] f = "PM1.0" -> MulF(base_values[f], pollution_factor)
           [] f = "PM2.5" ->
                MulF(base_values[f],
                     Mul4(pollution_factor, IF urban THEN 13000 ELSE 12000))
           [] f = "PM10" ->
                MulF(base_values[f],
                     Mul4(pollution_factor, IF urban THEN 14000 ELSE 12000))
           [] OTHER -> base_values[f]]

\* without base_values.copy(): the adjustments are written into the record
\* of the table
ApplyTemporalAdjustmentsInPlace(base_values, dt, region_type) ==
    [adjusted_values |-> Adjusted(base_values, dt, region_type),
     base_values |-> Adjusted(base_values, dt, region_type)]

ApplyTemporalAdjustments(base_values, dt, region_type) ==
    [adjusted_values |-> Adjusted(base_values, dt, region_type),
     base_values |-> base_values]

(***************************************************************************)
(* _calculate_enhanced_values                                              *)
(***************************************************************************)
RngLevels == 4

\* random.uniform(a, b) = a + (b - a) * random(), with random() the value
\* r / RngLevels of [0, 1) the generator gives in state r; 0 when the noise
\* is fixed
RandomUniform(a, b, r) ==
    IF noise_fixed THEN 0 ELSE a + ((b - a) * r) \div RngLevels

\* the state of the generator after n draws
RngAfter(r, n) == IF noise_fixed THEN r ELSE (r + n) % RngLevels

\* sigmoid_scale with range_scale in whole units; base and result in
\* thousandths, factor and steepness * factor in units of 1e-4
SigmoidScale(base, factor, range_scale, steepness) ==
    base + (2 * range_scale * 10000000) \div (10000 + Exp4(-(steepness * (factor - 5000))))

\* exp_scale with range_scale in whole units
ExpScale(base, factor, range_scale) ==
    base + (range_scale * ((Exp4(3 * factor) * 10000) \div Exp4(30000))) \div 10

\* the two terms added instead of the larger one taken
NoiseScaleSum(value, relative_scale, absolute_min_noise) ==
    MulF(Abs(value), relative_scale) + absolute_min_noise

NoiseScale(value, relative_scale, absolute_min_noise) ==
    Max(MulF(Abs(value), relative_scale), absolute_min_noise)

AddSensorNoise(value, relative_scale, absolute_min_noise, r) ==
    LET noise_scale == NoiseScale(value, relative_scale, absolute_min_noise)
    IN value + RandomUniform(-noise_scale, noise_scale, r)

\* the values before the noise, in the order the dictionary is built
RawValues(normalized_mean, adjusted_values) ==
    << SigmoidScale(adjusted_values["temperature"], normalized_mean, 15, 5),
       Min(100000, Max(10000, adjusted_values["humidity"] + MulF(50000, normalized_mean))),
       Max(950000, Min(1050000, adjusted_values["pressure"] - MulF(5000, normalized_mean))),
       ExpScale(adjusted_values["gas_resistance"], normalized_mean, 150000),
       SigmoidScale(adjusted_values["temperature"], normalized_mean, 15, 5),
       ExpScale(adjusted_values["CO2"], normalized_mean, 600),
       ExpScale(adjusted_values["VOC"], normalized_mean, 400),
       ExpScale(adjusted_values["PM1.0"], normalized_mean, 25),
       ExpScale(adjusted_values["PM2.5"], normalized_mean, 30),
       ExpScale(adjusted_values["PM10"], normalized_mean, 40) >>

\* (relative_scale, absolute_min_noise) of each call of add_sensor_noise
NoiseParams ==
    << <<100, 100>>, <<50, 100>>, <<10, 100>>, <<200, 100>>, <<100, 100>>,
       <<200, 1000>>, <<200, 500>>, <<500, 100>>, <<500, 100>>, <<500, 100>> >>

\* r is the state of the generator when the function is entered; the i-th
\* call of add_sensor_noise finds it i - 1 draws later
CalculateEnhancedValues(normalized_mean, adjusted_values, r) ==
    LET raw == RawValues(normalized_mean, adjusted_values)
        noisy(i) == AddSensorNoise(raw[i], NoiseParams[i][1], NoiseParams[i][2],
                                   RngAfter(r, i - 1))
    IN "BME688" :> [temperature |-> noisy(1), humidity |-> noisy(2),
                    pressure |-> noisy(3), gas_resistance |-> noisy(4)] @@
       "MCP9808" :> [temperature |-> noisy(5)] @@
       "CO2" :> [value |-> noisy(6)] @@
       "VOC" :> [value |-> noisy(7)] @@
       "PM1.0" :> [value |-> Max(0, noisy(8))] @@
       "PM2.5" :> [value |-> Max(0, noisy(9))] @@
       "PM10" :> [value |-> Max(0, noisy(10))]

(***************************************************************************)
(* _apply_physics_constraints                                              *)
(***************************************************************************)
\* the particulate lines written like the pressure line above them
ApplyPhysicsConstraintsOneMinus(values, lat, lon, dt) ==
    LET elevation == GetElevation(lat, lon)
        elevation_factor == ElevationFactor(elevation)
        temp_adjustment == (elevation_factor * 2000) \div 10000
        region_type == DetermineRegionType(lat, lon)
        area_type == IF region_type = "URBAN" THEN "urban" ELSE "rural"
        calibration == calibration_factors[area_type]
        pressure == values["BME688"].pressure
    IN "BME688" :> [temperature |-> values["BME688"].temperature - temp_adjustment,
                    humidity |-> values["BME688"].humidity,
                    pressure |-> pressure - (MulF(pressure, elevation_factor) * 12) \div 100000,
                    gas_resistance |-> values["BME688"].gas_resistance] @@
       "MCP9808" :> [temperature |-> values["MCP9808"].temperature - temp_adjustment] @@
       "CO2" :> [value |-> MulF(values["CO2"].value, calibration["CO2"])] @@
       "VOC" :> [value |-> MulF(values["VOC"].value, calibration["VOC"])] @@
       "PM1.0" :> [value |-> MulF(values["PM1.0"].value, 10000 - calibration["PM"])] @@
       "PM2.5" :> [value |-> MulF(values["PM2.5"].value, 10000 - calibration["PM"])] @@
       "PM10" :> [value |-> MulF(values["PM10"].value, 10000 - calibration["PM"])]

\* the elevation correction made to the BME688 temperature only
ApplyPhysicsConstraintsOneSensor(values, lat, lon, dt) ==
    LET elevation == GetElevation(lat, lon)
        elevation_factor == ElevationFactor(elevation)
        temp_adjustment == (elevation_factor * 2000) \div 10000
        region_type == DetermineRegionType(lat, lon)
        area_type == IF region_type = "URBAN" THEN "urban" ELSE "rural"
        calibration == calibration_factors[area_type]
        pressure == values["BME688"].pressure
    IN "BME688" :> [temperature |-> values["BME688"].temperature - temp_adjustment,
                    humidity |-> values["BME688"].humidity,
                    pressure |-> pressure - (MulF(pressure, elevation_factor) * 12) \div 100000,
                    gas_resistance |-> values["BME688"].gas_resistance] @@
       "MCP9808" :> [temperature |-> values["MCP9808"].temperature] @@
       "CO2" :> [value |-> MulF(values["CO2"].value, calibration["CO2"])] @@
       "VOC" :> [value |-> MulF(values["VOC"].value, calibration["VOC"])] @@
       "PM1.0" :> [value |-> MulF(values["PM1.0"].value, calibration["PM"])] @@
       "PM2.5" :> [value |-> MulF(values["PM2.5"].value, calibration["PM"])] @@
       "PM10" :> [value |-> MulF(values["PM10"].value, calibration["PM"])]

ApplyPhysicsConstraints(values, lat, lon, dt) ==
    LET elevation == GetElevation(lat, lon)
        elevation_factor == ElevationFactor(elevation)
        temp_adjustment == (elevation_factor * 2000) \div 10000
        region_type == DetermineRegionType(lat, lon)
        area_type == IF region_type = "URBAN" THEN "urban" ELSE "rural"
        calibration == calibration_factors[area_type]
        pressure == values["BME688"].pressure
    IN "BME688" :> [temperature |-> values["BME688"].temperature - temp_adjustment,
                    humidity |-> values["BME688"].humidity,
                    pressure |-> pressure - (MulF(pressure, elevation_factor) * 12) \div 100000,
                    gas_resistance |-> values["BME688"].gas_resistance] @@
       "MCP9808" :> [temperature |-> values["MCP9808"].temperature - temp_adjustment] @@
       "CO2" :> [value |-> MulF(values["CO2"].value, calibration["CO2"])] @@
       "VOC" :> [value |-> MulF(values["VOC"].value, calibration["VOC"])] @@
       "PM1.0" :> [value |-> MulF(values["PM1.0"].value, calibration["PM"])] @@
       "PM2.5" :> [value |-> MulF(values["PM2.5"].value, calibration["PM"])] @@
       "PM10" :> [value |-> MulF(values["PM10"].value, calibration["PM"])]

(***************************************************************************)
(* The predictor after __init__, and predict as a sequence of steps, one   *)
(* per statement of its try block.                                         *)
(***************************************************************************)
Callers == {1}

\* the locals of a call; model_calls counts the invocations of the model and
\* steps lists the statements the call has run
IdleCall ==
    [pc |-> "idle", date_str |-> <<>>, lat |-> 0, lon |-> 0, time_str |-> <<>>,
     dt |-> NoValue, input_patch |-> NoValue, pred |-> NoValue,
     normalized_mean |-> 0, region_type |-> NoValue, adjusted_values |-> NoValue,
     results |-> NoValue, ret |-> NoValue, model_calls |-> 0, steps |-> <<>>]

InitPredictor ==
    /\ regional_base_values = RegionalBaseValues
    /\ seasonal_params = SeasonalParams
    /\ diurnal_params = DiurnalParams
    /\ calibration_factors = CalibrationFactors
    /\ model = "smooth"
    /\ rng = 0
    /\ noise_fixed = FALSE
    /\ req = [c \in Callers |-> IdleCall]
    /\ log = <<>>

\* the except clauses of predict: the dictionary returned for exception e
HandleValueErrorOnly(e) ==
    IF e = "ValueError"
    THEN [error |-> e, message |-> "Invalid date/time format or input values"]
    ELSE [raised |-> e]

HandleException(e) ==
    IF e = "ValueError"
    THEN [error |-> e, message |-> "Invalid date/time format or input values"]
    ELSE [error |-> e, message |-> "Prediction failed"]

Fail(c, e) ==
    req' = [req EXCEPT ![c].ret = HandleException(e), ![c].pc = "done",
                       ![c].steps = Append(@, req[c].pc)]

Call(c, date_str, lat, lon, time_str) ==
    /\ req[c].pc = "idle"
    /\ req' = [req EXCEPT ![c] = [IdleCall EXCEPT !.pc = "parse",
                                                  !.date_str = date_str,
                                                  !.lat = lat, !.lon = lon,
                                                  !.time_str = time_str]]
    /\ UNCHANGED <<tables, model, rng, noise_fixed, log, harness>>

\* line 754
ParseTimestamp(c) ==
    /\ req[c].pc = "parse"
    /\ LET dt == Strptime(req[c].date_str, req[c].time_str)
       IN IF IsException(dt)
          THEN Fail(c, dt.exception)
          ELSE req' = [req EXCEPT ![c].dt = dt, ![c].pc = "patch",
                                  ![c].steps = Append(@, "parse")]
    /\ UNCHANGED <<tables, model, rng, noise_fixed, log, harness>>

\* line 755
GeneratePatch(c) ==
    /\ req[c].pc = "patch"
    /\ req' = [req EXCEPT
                 ![c].input_patch =
                     GenerateSyntheticPatch(req[c].lat, req[c].lon, req[c].dt),
                 ![c].pc = "model",
                 ![c].steps = Append(@, "patch")]
    /\ UNCHANGED <<tables, model, rng, noise_fixed, log, harness>>

\* a model call that is made again, once, when it raised
InvokeModelRetry(c) ==
    /\ req[c].pc = "model"
    /\ LET pred == ModelPredict(model, req[c].input_patch)
       IN IF IsException(pred)
          THEN IF req[c].model_calls = 0
               THEN req' = [req EXCEPT ![c].model_calls = @ + 1,
                                       ![c].steps = Append(@, "model")]
               ELSE req' = [req EXCEPT ![c].ret = HandleException(pred.exception),
                                       ![c].pc = "done",
                                       ![c].model_calls = @ + 1,
                                       ![c].steps = Append(@, "model")]
          ELSE req' = [req EXCEPT ![c].pred = pred.output, ![c].pc = "normalize",
                                  ![c].model_calls = @ + 1,
                                  ![c].steps = Append(@, "model")]
    /\ UNCHANGED <<tables, model, rng, noise_fixed, log, harness>>

\* line 756
InvokeModel(c) ==
    /\ req[c].pc = "model"
    /\ LET pred == ModelPredict(model, req[c].input_patch)
       IN IF IsException(pred)
          THEN req' = [req EXCEPT ![c].ret = HandleException(pred.exception),
                                  ![c].pc = "done",
                                  ![c].model_calls = @ + 1,
                                  ![c].steps = Append(@, "model")]
          ELSE req' = [req EXCEPT ![c].pred = pred.output, ![c].pc = "normalize",
                                  ![c].model_calls = @ + 1,
                                  ![c].steps = Append(@, "model")]
    /\ UNCHANGED <<tables, model, rng, noise_fixed, log, harness>>

\* lines 757-761
Normalize(c) ==
    /\ req[c].pc = "normalize"
    /\ req' = [req EXCEPT ![c].normalized_mean = NormalizedMean(req[c].pred),
                          ![c].pc = "adjust",
                          ![c].steps = Append(@, "normalize")]
    /\ UNCHANGED <<tables, model, rng, noise_fixed, log, harness>>

\* lines 762-764
Adjust(c) ==
    /\ req[c].pc = "adjust"
    /\ LET region_type == DetermineRegionType(req[c].lat, req[c].lon)
           base_values == regional_base_values[region_type]
           r == ApplyTemporalAdjustments(base_values, req[c].dt, region_type)
       IN /\ req' = [req EXCEPT ![c].region_type = region_type,
                                ![c].adjusted_values = r.adjusted_values,
                                ![c].pc = "synthesize",
                                ![c].steps = Append(@, "adjust")]
          /\ regional_base_values' =
                 [regional_base_values EXCEPT ![region_type] = r.base_values]
    /\ UNCHANGED <<seasonal_params, diurnal_params, calibration_factors, model,
                   rng, noise_fixed, log, harness>>

\* the synthesized values taken as final, line 766 left out
SynthesizeThenAssemble(c) ==
    /\ req[c].pc = "synthesize"
    /\ req' = [req EXCEPT
                 ![c].results = CalculateEnhancedValues(req[c].normalized_mean,
                                                        req[c].adjusted_values, rng),
                 ![c].pc = "assemble",
                 ![c].steps = Append(@, "synthesize")]
    /\ rng' = RngAfter(rng, Len(NoiseParams))
    /\ UNCHANGED <<tables, model, noise_fixed, log, harness>>

\* line 765
Synthesize(c) ==
    /\ req[c].pc = "synthesize"
    /\ req' = [req EXCEPT
                 ![c].results = CalculateEnhancedValues(req[c].normalized_mean,
                                                        req[c].adjusted_values, rng),
                 ![c].pc = "constrain",
                 ![c].steps = Append(@, "synthesize")]
    /\ rng' = RngAfter(rng, Len(NoiseParams))
    /\ UNCHANGED <<tables, model, noise_fixed, log, harness>>

\* the synthesized values kept in a field of the predictor, which a call
\* that reaches line 766 while another is there reads from that other call
ConstrainShared(c) ==
    /\ req[c].pc = "constrain"
    /\ LET others == {o \in DOMAIN req \ {c} : req[o].pc \in {"constrain", "assemble"}}
           values == IF others = {} THEN req[c].results
                     ELSE req[CHOOSE o \in others : TRUE].results
       IN req' = [req EXCEPT
                    ![c].results = ApplyPhysicsConstraints(values, req[c].lat,
                                                           req[c].lon, req[c].dt),
                    ![c].pc = "assemble",
                    ![c].steps = Append(@, "constrain")]
    /\ UNCHANGED <<tables, model, rng, noise_fixed, log, harness>>

\* line 766
Constrain(c) ==
    /\ req[c].pc = "constrain"
    /\ req' = [req EXCEPT
                 ![c].results = ApplyPhysicsConstraints(req[c].results, req[c].lat,
                                                        req[c].lon, req[c].dt),
                 ![c].pc = "assemble",
                 ![c].steps = Append(@, "constrain")]
    /\ UNCHANGED <<tables, model, rng, noise_fixed, log, harness>>

\* the metadata with the time argument reported as it was given
MetadataTimeAsGiven(r) ==
    [latitude |-> r.lat,
     longitude |-> r.lon,
     date |-> r.date_str,
     time |-> r.time_str,
     season |-> DatetimeToFeatures(r.dt).season,
     time_of_day |-> DatetimeToFeatures(r.dt).time_of_day,
     normalized_activity |-> r.normalized_mean,
     uncertainty |-> MeanUncertainty(r.pred)]

\* lines 767-776
Metadata(r) ==
    [latitude |-> r.lat,
     longitude |-> r.lon,
     date |-> r.date_str,
     time |-> IF r.time_str = None THEN <<0, 0>> ELSE r.time_str,
     season |-> DatetimeToFeatures(r.dt).season,
     time_of_day |-> DatetimeToFeatures(r.dt).time_of_day,
     normalized_activity |-> r.normalized_mean,
     uncertainty |-> MeanUncertainty(r.pred)]

\* lines 767-777
Assemble(c) ==
    /\ req[c].pc = "assemble"
    /\ req' = [req EXCEPT ![c].ret = req[c].results @@ ("metadata" :> Metadata(req[c])),
                          ![c].pc = "done",
                          ![c].steps = Append(@, "assemble")]
    /\ UNCHANGED <<tables, model, rng, noise_fixed, log, harness>>

\* predict as one function of its arguments, for a generator in state r:
\* the value the statements of lines 754-781 return when nothing else runs
\* between them
Predict(date_str, lat, lon, time_str, r) ==
    LET dt == Strptime(date_str, time_str)
    IN IF IsException(dt) THEN HandleException(dt.exception)
       ELSE
       LET input_patch == GenerateSyntheticPatch(lat, lon, dt)
           pred == ModelPredict(model, input_patch)
       IN IF IsException(pred) THEN HandleException(pred.exception)
          ELSE
          LET normalized_mean == NormalizedMean(pred.output)
              region_type == DetermineRegionType(lat, lon)
              base_values == regional_base_values[region_type]
              adjusted_values ==
                  ApplyTemporalAdjustments(base_values, dt, region_type).adjusted_values
              synthesized ==
                  CalculateEnhancedValues(normalized_mean, adjusted_values, r)
              results == ApplyPhysicsConstraints(synthesized, lat, lon, dt)
          IN results @@
             ("metadata" :> Metadata([lat |-> lat, lon |-> lon,
                                      date_str |-> date_str, time_str |-> time_str,
                                      dt |-> dt, normalized_mean |-> normalized_mean,
                                      pred |-> pred.output]))

\* the boundary checks of _latlon_to_merra_index, which predict never calls
ClampLat(lat) == Max(Min(lat, 900), -900)

ClampLon(lon) == Max(Min(lon, 1800), -1800)

\* the arguments of a call
Arguments(r) == <<r.date_str, r.lat, r.lon, r.time_str>>

\* the caller takes the returned dictionary; a caller that remembered a
\* result notes that a call with other arguments was made since
Return(c) ==
    /\ req[c].pc = "done"
    /\ req' = [req EXCEPT ![c] = IdleCall]
    /\ log' = IF log # <<>> /\ log[1].arguments # Arguments(req[c])
              THEN <<[log[1] EXCEPT !.other_calls = TRUE]>>
              ELSE log
    /\ UNCHANGED <<tables, model, rng, noise_fixed, harness>>

\* the caller takes the returned dictionary and, the first time, keeps it
\* with the arguments of the call
Remember(c) ==
    /\ req[c].pc = "done"
    /\ log = <<>>
    /\ log' = <<[arguments |-> Arguments(req[c]), ret |-> req[c].ret,
                 other_calls |-> FALSE]>>
    /\ req' = [req EXCEPT ![c] = IdleCall]
    /\ UNCHANGED <<tables, model, rng, noise_fixed, harness>>

Step(c) ==
    \/ ParseTimestamp(c)
    \/ GeneratePatch(c)
    \/ InvokeModel(c)
    \/ Normalize(c)
    \/ Adjust(c)
    \/ Synthesize(c)
    \/ Constrain(c)
    \/ Assemble(c)

(***************************************************************************)
(* Specification Spec: one caller, calling predict again and again with    *)
(* arguments from the sets below, on a predictor with any of the models    *)
(* and any state of the generator.                                         *)
(***************************************************************************)
\* a point of each region, the centre of the New York box, and two points
\* outside the valid range
Coords ==
    { <<0, 100>>, <<270, 0>>, <<0, 300>>, <<407, -740>>, <<700, 0>>,
      <<400, -1100>>, <<500, 1750>>, <<-235, -466>>, <<370, -780>>,
      <<500, 600>>, <<110, 770>>, <<950, 600>>, <<500, 1850>> }

\* a day of each season, the 30th of February, and the empty string
DateStrs ==
    { <<2025, 6, 15>>, <<2025, 12, 12>>, <<2024, 3, 1>>, <<2025, 10, 31>>,
      <<2025, 2, 30>>, <<>> }

\* a time of each part of the day, no time, and the hour 25
TimeStrs == { <<8, 0>>, <<14, 0>>, <<18, 30>>, <<23, 59>>, None, <<25, 0>> }

Init ==
    /\ regional_base_values = RegionalBaseValues
    /\ seasonal_params = SeasonalParams
    /\ diurnal_params = DiurnalParams
    /\ calibration_factors = CalibrationFactors
    /\ model \in ModelKinds
    /\ rng \in 0..(RngLevels - 1)
    /\ noise_fixed \in BOOLEAN
    /\ req = [c \in Callers |-> IdleCall]
    /\ log = <<>>
    /\ fin = NoValue /\ fout = NoValue /\ fpc = "out"

Next ==
    \E c \in Callers :
        \/ \E d \in DateStrs, p \in Coords, t \in TimeStrs : Call(c, d, p[1], p[2], t)
        \/ Step(c)
        \/ Return(c)

Spec == Init /\ [][Next]_vars

(***************************************************************************)
(* Specification SpecSeq: a caller that keeps the first result it gets and *)
(* goes on calling, with arguments from smaller sets.                      *)
(***************************************************************************)
SeqCoords == { <<-235, -466>>, <<0, 100>> }

SeqDateStrs == { <<2025, 6, 15>>, <<2025, 2, 30>> }

SeqTimeStrs == { <<14, 0>>, None }

NextSeq ==
    \E c \in Callers :
        \/ \E d \in SeqDateStrs, p \in SeqCoords, t \in SeqTimeStrs :
               Call(c, d, p[1], p[2], t)
        \/ Step(c)
        \/ Return(c)
        \/ Remember(c)

SpecSeq == Init /\ [][NextSeq]_vars

(***************************************************************************)
(* Specification SpecConc: two callers on the same predictor, the          *)
(* statements of their calls interleaved in every way, with the noise      *)
(* fixed.                                                                  *)
(***************************************************************************)
ConcCallers == {1, 2}

InitConc ==
    /\ regional_base_values = RegionalBaseValues
    /\ seasonal_params = SeasonalParams
    /\ diurnal_params = DiurnalParams
    /\ calibration_factors = CalibrationFactors
    /\ model \in ModelKinds
    /\ rng = 0
    /\ noise_fixed = TRUE
    /\ req = [c \in ConcCallers |-> IdleCall]
    /\ log = <<>>
    /\ fin = NoValue /\ fout = NoValue /\ fpc = "out"

NextConc ==
    \E c \in ConcCallers :
        \/ \E d \in SeqDateStrs, p \in SeqCoords, t \in SeqTimeStrs :
               Call(c, d, p[1], p[2], t)
        \/ Step(c)
        \/ Return(c)

SpecConc == InitConc /\ [][NextConc]_vars

(***************************************************************************)
(* Specification SpecConstruct: __init__ on a model file fin, step by      *)
(* step, and predict calls on the object once the constructor returned.    *)
(* fpc is the position in __init__, fout the exception it raised.          *)
(***************************************************************************)
ExpectedShape == <<1, 128, 128, 2>>

OutputShapes == { ExpectedShape, <<1, 128, 128, 1>>, <<1, 64, 64, 2>> }

\* a file at model_path: whether it exists, whether load_model reads it,
\* what the model it holds does, and the shape of what it returns
ModelFiles ==
    [exists : BOOLEAN, loads : BOOLEAN, kind : ModelKinds, shape : OutputShapes]

InitConstruct ==
    /\ fin \in ModelFiles
    /\ fout = NoValue
    /\ fpc = "load"
    /\ regional_base_values = <<>>
    /\ seasonal_params = <<>>
    /\ diurnal_params = <<>>
    /\ calibration_factors = <<>>
    /\ model = NoValue
    /\ rng = 0
    /\ noise_fixed = TRUE
    /\ req = [c \in Callers |-> IdleCall]
    /\ log = <<>>

\* the except clauses of __init__: every exception leaves as a RuntimeError
RaiseFromInit ==
    /\ fout' = Exception("RuntimeError")
    /\ fpc' = "raised"

\* lines 27-31
LoadModel ==
    /\ fpc = "load"
    /\ IF fin.exists /\ fin.loads
       THEN /\ model' = fin.kind
            /\ fpc' = "validate"
            /\ fout' = fout
       ELSE /\ RaiseFromInit
            /\ model' = model
    /\ UNCHANGED <<fin, tables, rng, noise_fixed, req, log>>

\* _validate_model without the comparison of the shape
ValidateModelCallOnly ==
    /\ fpc = "validate"
    /\ LET test_output == ModelPredict(model, <<<<0, 0, 0>>, <<0, 0, 0>>, <<0, 0, 0>>>>)
       IN IF IsException(test_output)
          THEN RaiseFromInit
          ELSE fpc' = "tables" /\ fout' = fout
    /\ UNCHANGED <<fin, predictor>>

\* line 32: _validate_model
ValidateModel ==
    /\ fpc = "validate"
    /\ LET test_output == ModelPredict(model, <<<<0, 0, 0>>, <<0, 0, 0>>, <<0, 0, 0>>>>)
       IN IF IsException(test_output) \/ fin.shape # ExpectedShape
          THEN RaiseFromInit
          ELSE fpc' = "tables" /\ fout' = fout
    /\ UNCHANGED <<fin, predictor>>

\* lines 34-494: the rest of the constructor
BuildTables ==
    /\ fpc = "tables"
    /\ regional_base_values' = RegionalBaseValues
    /\ seasonal_params' = SeasonalParams
    /\ diurnal_params' = DiurnalParams
    /\ calibration_factors' = CalibrationFactors
    /\ fpc' = "constructed"
    /\ UNCHANGED <<fin, fout, model, rng, noise_fixed, req, log>>

\* predict is a method: it is called on an object the constructor returned
CallConstructed(c, date_str, lat, lon, time_str) ==
    /\ fpc = "constructed"
    /\ Call(c, date_str, lat, lon, time_str)

NextConstruct ==
    \/ LoadModel
    \/ ValidateModel
    \/ BuildTables
    \/ \E c \in Callers :
        \/ \E d \in SeqDateStrs, p \in SeqCoords, t \in SeqTimeStrs :
               CallConstructed(c, d, p[1], p[2], t)
        \/ Step(c)
        \/ Return(c)

SpecConstruct == InitConstruct /\ [][NextConstruct]_vars

(***************************************************************************)
(* Specification SpecAdjust: _apply_temporal_adjustments applied to the    *)
(* baseline of every region at the 15th of every month, at an hour of each *)
(* part of the day.                                                        *)
(***************************************************************************)
SampleHours == {2, 8, 14, 18, 23}

InitAdjust ==
    /\ InitPredictor
    /\ fin \in [region_type : RegionType,
                dt : [year : {2025}, month : 1..12, day : {15},
                      hour : SampleHours, minute : {0}]]
    /\ fout = NoValue
    /\ fpc = "in"

AdjustBaseline ==
    /\ fpc = "in"
    /\ LET base_values == regional_base_values[fin.region_type]
           r == ApplyTemporalAdjustments(base_values, fin.dt, fin.region_type)
       IN /\ fout' = r.adjusted_values
          /\ regional_base_values' =
                 [regional_base_values EXCEPT ![fin.region_type] = r.base_values]
    /\ fpc' = "out"
    /\ UNCHANGED <<fin, seasonal_params, diurnal_params, calibration_factors,
                   model, rng, noise_fixed, req, log>>

NextAdjust == AdjustBaseline

SpecAdjust == InitAdjust /\ [][NextAdjust]_vars

\* C23: in the patch _generate_synthetic_patch returns, every element of the
\* last frame lies within [0.1, 1.0], and the first two frames are 0.85 and
\* 0.93 times the last.
C23_PatchInRange ==
    \A c \in Callers :
        req[c].pc = "model" =>
            LET sequence == req[c].input_patch
            IN \A i \in DOMAIN sequence[3] :
                  /\ sequence[3][i] \in 1000..10000
                  /\ sequence[1][i] = Mul4(sequence[3][i], 8500)
                  /\ sequence[2][i] = Mul4(sequence[3][i], 9300)

(***************************************************************************)
(* Specification SpecApp: the handlers of src/app.py, one request at a     *)
(* time.  fin is the request and the clock, fpc the position in the        *)
(* handler, fout the locals of the handler and its response.  A field of   *)
(* the JSON body is absent or a number (in tenths of a degree); the        *)
(* predictor is None when model is NoValue.  The heatmap samples NPoints   *)
(* points (50 in the source).                                              *)
(***************************************************************************)
NPoints == 3

\* a model that raises on some patches, beside those of Spec
AppModels == ModelKinds \cup {"partial"}

Absent == [present |-> FALSE, value |-> 0]

Number(v) == [present |-> TRUE, value |-> v]

\* the truth value Python gives a field read with data.get: None and 0 are
\* false
Truthy(x) == x.present /\ x.value # 0

Requests ==
    [endpoint : {"/predict", "/heatmap-data"},
     json : {TRUE},
     latitude : {Absent, Number(0), Number(10)},
     longitude : {Absent, Number(0), Number(200), Number(-466)},
     radius : {1, 10},
     date : {<<2025, 6, 15>>},
     time : {<<14, 0>>, <<23, 59>>}]
    \cup
    [endpoint : {"/predict", "/heatmap-data"},
     json : {FALSE},
     latitude : {Absent},
     longitude : {Absent},
     radius : {1},
     date : {<<2025, 6, 15>>},
     time : {<<14, 0>>}]

EmptyData ==
    [latitude |-> <<>>, longitude |-> <<>>, VOC |-> <<>>, CO2 |-> <<>>,
     PM1_0 |-> <<>>, PM2_5 |-> <<>>, PM10 |-> <<>>]

NoResponse == [status |-> 0, error |-> ""]

Response(status, error) == [status |-> status, error |-> error]

InitApp ==
    /\ regional_base_values = RegionalBaseValues
    /\ seasonal_params = SeasonalParams
    /\ diurnal_params = DiurnalParams
    /\ calibration_factors = CalibrationFactors
    /\ model \in AppModels \cup {NoValue}
    /\ rng = 0
    /\ noise_fixed = TRUE
    /\ req = [c \in Callers |-> IdleCall]
    /\ log = <<>>
    /\ fin \in Requests
    /\ fout = [i |-> 0, calls |-> 0, data |-> EmptyData, response |-> NoResponse,
               render_raised |-> FALSE]
    /\ fpc = "validate"

\* the caller the handlers are
Handler == CHOOSE c \in Callers : TRUE

\* app.py lines 43-70: up to the call
PredictValidate ==
    /\ fpc = "validate"
    /\ fin.endpoint = "/predict"
    /\ IF model = NoValue
       THEN /\ fout' = [fout EXCEPT !.response = Response(500, "failed to initialize")]
            /\ fpc' = "done"
       ELSE IF ~fin.json
       THEN /\ fout' = [fout EXCEPT !.response = Response(400, "No JSON data provided")]
            /\ fpc' = "done"
       ELSE IF ~(Truthy(fin.latitude) /\ Truthy(fin.longitude))
       THEN /\ fout' = [fout EXCEPT !.response = Response(400, "Missing required fields")]
            /\ fpc' = "done"
       ELSE /\ fout' = fout
            /\ fpc' = "call"
    /\ UNCHANGED <<fin, predictor>>

\* lines 75-80: predictor.predict is entered
PredictCall ==
    /\ fpc = "call"
    /\ fin.endpoint = "/predict"
    /\ Call(Handler, fin.date, fin.latitude.value, fin.longitude.value, fin.time)

\* lines 81-102: the answer made from what predict returned
PredictRespond ==
    /\ fpc = "call"
    /\ fin.endpoint = "/predict"
    /\ req[Handler].pc = "done"
    /\ fout' = [fout EXCEPT
                  !.calls = @ + 1,
                  !.response = IF "error" \in DOMAIN req[Handler].ret
                               THEN Response(500, req[Handler].ret.message)
                               ELSE Response(200, "")]
    /\ req' = [req EXCEPT ![Handler] = IdleCall]
    /\ fpc' = "done"
    /\ UNCHANGED <<fin, tables, model, rng, noise_fixed, log>>

\* app.py lines 115-148
HeatmapValidate ==
    /\ fpc = "validate"
    /\ fin.endpoint = "/heatmap-data"
    /\ IF ~fin.json
       THEN /\ fout' = [fout EXCEPT !.response = Response(400, "No JSON data provided")]
            /\ fpc' = "done"
       ELSE IF ~(Truthy(fin.latitude) /\ Truthy(fin.longitude))
       THEN /\ fout' = [fout EXCEPT !.response = Response(400, "Missing required fields")]
            /\ fpc' = "done"
       ELSE /\ fout' = fout
            /\ fpc' = "loop"
    /\ UNCHANGED <<fin, predictor>>

\* the offsets np.random.uniform(-radius, radius, n_points) gives after
\* np.random.seed(42): a fixed sequence within the radius
LatOffset(i, radius) == (((2 * i) % 3) - 1) * radius

LonOffset(i, radius) == ((i % 3) - 1) * radius

\* the i-th sample point (i from 0)
SampleLat(i) == fin.latitude.value + LatOffset(i, fin.radius)

SampleLon(i) == fin.longitude.value + LonOffset(i, fin.radius)

\* lines 168-174: the appends, which stop at the first key the result lacks
AppendPoint(data, lat, lon, result) ==
    LET d1 == [data EXCEPT !.latitude = Append(@, lat), !.longitude = Append(@, lon)]
    IN IF "VOC" \notin DOMAIN result THEN d1
       ELSE LET d2 == [d1 EXCEPT !.VOC = Append(@, result["VOC"].value)]
       IN IF "CO2" \notin DOMAIN result THEN d2
       ELSE LET d3 == [d2 EXCEPT !.CO2 = Append(@, result["CO2"].value)]
       IN IF "PM1.0" \notin DOMAIN result THEN d3
       ELSE LET d4 == [d3 EXCEPT !.PM1_0 = Append(@, result["PM1.0"].value)]
       IN IF "PM2.5" \notin DOMAIN result THEN d4
       ELSE LET d5 == [d4 EXCEPT !.PM2_5 = Append(@, result["PM2.5"].value)]
       IN IF "PM10" \notin DOMAIN result THEN d5
       ELSE [d5 EXCEPT !.PM10 = Append(@, result["PM10"].value)]

\* lines 158-167: predictor.predict is entered for the next point
HeatmapCall ==
    /\ fpc = "loop"
    /\ fout.i < NPoints
    /\ model # NoValue
    /\ Call(Handler, fin.date, SampleLat(fout.i), SampleLon(fout.i), fin.time)

\* lines 162, 175-177: predictor is None, the call raises AttributeError and
\* the loop goes on to the next point
HeatmapCallOnNone ==
    /\ fpc = "loop"
    /\ fout.i < NPoints
    /\ model = NoValue
    /\ fout' = [fout EXCEPT !.i = @ + 1, !.calls = @ + 1]
    /\ UNCHANGED <<fin, fpc, predictor>>

\* the loop left at the first point whose call returns an error
HeatmapCollectUntilFailure ==
    /\ fpc = "loop"
    /\ req[Handler].pc = "done"
    /\ fout' = IF "error" \in DOMAIN req[Handler].ret
               THEN [fout EXCEPT !.i = NPoints, !.calls = @ + 1]
               ELSE [fout EXCEPT !.i = @ + 1, !.calls = @ + 1,
                                 !.data = AppendPoint(@, SampleLat(fout.i),
                                                      SampleLon(fout.i),
                                                      req[Handler].ret)]
    /\ req' = [req EXCEPT ![Handler] = IdleCall]
    /\ UNCHANGED <<fin, fpc, tables, model, rng, noise_fixed, log>>

\* lines 168-178: the point is skipped or its values are appended
HeatmapCollect ==
    /\ fpc = "loop"
    /\ req[Handler].pc = "done"
    /\ fout' = IF "error" \in DOMAIN req[Handler].ret
               THEN [fout EXCEPT !.i = @ + 1, !.calls = @ + 1]
               ELSE [fout EXCEPT !.i = @ + 1, !.calls = @ + 1,
                                 !.data = AppendPoint(@, SampleLat(fout.i),
                                                      SampleLon(fout.i),
                                                      req[Handler].ret)]
    /\ req' = [req EXCEPT ![Handler] = IdleCall]
    /\ UNCHANGED <<fin, fpc, tables, model, rng, noise_fixed, log>>

\* lines 180-257: the answer; the rendering (kriging, plot, basemap) is code
\* of libraries and either returns or raises
HeatmapRender ==
    /\ fpc = "loop"
    /\ fout.i = NPoints
    /\ \/ /\ fout.data.latitude = <<>>
          /\ fout' = [fout EXCEPT !.response = Response(500, "No valid predictions")]
       \/ /\ fout.data.latitude # <<>>
          /\ \E raised \in BOOLEAN :
                fout' = [fout EXCEPT
                           !.render_raised = raised,
                           !.response = IF raised
                                        THEN Response(500, "Failed to generate heatmap")
                                        ELSE Response(200, "")]
    /\ fpc' = "done"
    /\ UNCHANGED <<fin, predictor>>

NextApp ==
    \/ PredictValidate
    \/ PredictCall
    \/ PredictRespond
    \/ HeatmapValidate
    \/ HeatmapCall
    \/ HeatmapCallOnNone
    \/ HeatmapCollect
    \/ HeatmapRender
    \/ Step(Handler)

SpecApp == InitApp /\ [][NextApp]_vars

\* the i-th point's call returns a dictionary without the key 'error' (the
\* call raises only when there is no predictor; whether it fails does not
\* depend on the generator)
PointSucceeded(i) ==
    /\ model # NoValue
    /\ "error" \notin DOMAIN Predict(fin.date, SampleLat(i), SampleLon(i), fin.time, 0)

\* the coordinates of the points among the first n that succeeded, in order
RECURSIVE SucceededLat(_)
SucceededLat(n) ==
    IF n = 0 THEN <<>>
    ELSE IF PointSucceeded(n - 1) THEN Append(SucceededLat(n - 1), SampleLat(n - 1))
    ELSE SucceededLat(n - 1)

RECURSIVE SucceededLon(_)
SucceededLon(n) ==
    IF n = 0 THEN <<>>
    ELSE IF PointSucceeded(n - 1) THEN Append(SucceededLon(n - 1), SampleLon(n - 1))
    ELSE SucceededLon(n - 1)

\* the heatmap handler is past its validation
Sampling ==
    /\ fin.endpoint = "/heatmap-data"
    /\ \/ fpc = "loop"
       \/ fpc = "done" /\ fout.response.status # 400

DataKeys == {"latitude", "longitude", "VOC", "CO2", "PM1_0", "PM2_5", "PM10"}

\* C22: the heatmap sampler calls predict once for every sample point,
\* whatever the earlier calls returned; the collected latitudes and longitudes
\* are exactly those of the points whose call returned without 'error' and
\* without raising; the seven collected lists have the same length; and the
\* answer is a 500 error exactly when no point succeeded or the rendering
\* raised.
C22_SamplerSkipsFailedPoints ==
    Sampling =>
        /\ fout.calls = fout.i
        /\ fpc = "done" => fout.calls = NPoints
        /\ req[Handler].pc \in {"idle", "done"} =>
              /\ fout.data.latitude = SucceededLat(fout.i)
              /\ fout.data.longitude = SucceededLon(fout.i)
        /\ \A k \in DataKeys : Len(fout.data[k]) = Len(fout.data.latitude)
        /\ fpc = "done" =>
              /\ fout.response.status \in {200, 500}
              /\ fout.response.status = 500
                    <=> (\A i \in 0..(NPoints - 1) : ~PointSucceeded(i))
                        \/ fout.render_raised

\* a finished batch in which an earlier point failed and a later one succeeded
C22_Witness ==
    /\ Sampling
    /\ fpc = "done"
    /\ fout.response.status = 200
    /\ ~PointSucceeded(0)
    /\ PointSucceeded(NPoints - 1)
    /\ Len(fout.data.PM10) \in 1..(NPoints - 1)

\* C25: a handler answers 400 'Missing required fields' only when latitude
\* or longitude is absent from the body; a request carrying two numbers, the
\* value 0 included, passes the validation.
C25_MissingFieldsOnlyWhenAbsent ==
    fout.response = Response(400, "Missing required fields")
        => ~fin.latitude.present \/ ~fin.longitude.present

(***************************************************************************)
(* Specification SpecNorm: the two scalars of predict computed from model  *)
(* outputs of FieldLen pixels, every mean and every uncertainty drawn from *)
(* the samples below (all finite).                                         *)
(***************************************************************************)
FieldLen == 3

MeanSamples == {-F32Max, 0, 1, 10000000, F32Max}

UncertaintySamples == {-1, 1}

InitNorm ==
    /\ InitPredictor
    /\ fin \in [1..FieldLen -> MeanSamples \X UncertaintySamples]
    /\ fout = NoValue
    /\ fpc = "in"

Scalars ==
    /\ fpc = "in"
    /\ fout' = [normalized_mean |-> NormalizedMean(fin),
                uncertainty |-> MeanUncertainty(fin)]
    /\ fpc' = "out"
    /\ UNCHANGED <<fin, predictor>>

NextNorm == Scalars

SpecNorm == InitNorm /\ [][NextNorm]_vars

(***************************************************************************)
(* Specification SpecRegion: the classifier applied to coordinates drawn   *)
(* from the corners of every rectangle of the cascade, of every city box   *)
(* and of the valid range, each taken with its neighbours within Margin    *)
(* tenths of a degree.                                                     *)
(***************************************************************************)
Margin == 1

LatCorners ==
    {-900, -600, -400, -350, -300, -200, -150, -100, 0, 100, 150, 200, 250,
     300, 350, 400, 450, 500, 550, 600, 900}
    \cup {major_cities[i][1] + d : i \in DOMAIN major_cities, d \in {-10, 0, 10}}
    \cup {270, 700}

LonCorners ==
    {-1800, -1700, -1400, -1300, -1200, -1050, -1000, -800, -750, -700,
     -650, -600, -500, -200, -100, -50, 0, 50, 100, 150, 200, 300, 400, 500,
     600, 700, 800, 900, 1000, 1150, 1200, 1400, 1500, 1700, 1800}
    \cup {major_cities[i][2] + d : i \in DOMAIN major_cities, d \in {-15, 0, 15}}

LatSamples ==
    {c + d : c \in LatCorners, d \in -Margin..Margin} \cap (-900..900)

LonSamples ==
    {c + d : c \in LonCorners, d \in -Margin..Margin} \cap (-1800..1800)

InitRegion ==
    /\ InitPredictor
    /\ fin \in LatSamples \X LonSamples
    /\ fout = NoValue
    /\ fpc = "in"

Classify ==
    /\ fpc = "in"
    /\ fout' = DetermineRegionType(fin[1], fin[2])
    /\ fpc' = "out"
    /\ UNCHANGED <<fin, predictor>>

NextRegion == Classify

SpecRegion == InitRegion /\ [][NextRegion]_vars

(***************************************************************************)
(* Specification SpecTime: the feature extractor applied to the first and  *)
(* the last day of every month of a leap and of a common year, at every    *)
(* hour and at the first and the last minute of the hour.                  *)
(***************************************************************************)
SampleYears == {2024, 2025}

InitTime ==
    /\ InitPredictor
    /\ fin \in {[year |-> y, month |-> m, day |-> d, hour |-> h, minute |-> mi] :
                  y \in SampleYears, m \in 1..12, d \in {1, 28}, h \in 0..23,
                  mi \in {0, 59}}
    /\ fout = NoValue
    /\ fpc = "in"

Extract ==
    /\ fpc = "in"
    /\ fout' = DatetimeToFeatures(fin)
    /\ fpc' = "out"
    /\ UNCHANGED <<fin, predictor>>

NextTime == Extract

SpecTime == InitTime /\ [][NextTime]_vars

(***************************************************************************)
(* Claims about the classifier (under SpecRegion)                          *)
(***************************************************************************)
\* the rules in the order C4 states, each with the type it gives
RuleOrder == <<"OCEAN", "DESERT", "FOREST_TROPICAL", "FOREST_TEMPERATE",
               "TUNDRA", "MOUNTAIN", "COASTAL", "URBAN", "AGRICULTURAL">>

RuleHolds(r, lat, lon) ==
    CASE r = "OCEAN" -> OceanRule(lat, lon)
      [] r = "DESERT" -> DesertRule(lat, lon)
      [] r = "FOREST_TROPICAL" -> ForestTropicalRule(lat, lon)
      [] r = "FOREST_TEMPERATE" -> ForestTemperateRule(lat, lon)
      [] r = "TUNDRA" -> TundraRule(lat, lon)
      [] r = "MOUNTAIN" -> MountainRule(lat, lon)
      [] r = "COASTAL" -> CoastalRule(lat, lon)
      [] r = "URBAN" -> UrbanRule(lat, lon)
      [] r = "AGRICULTURAL" -> AgriculturalRule(lat, lon)

Satisfied(lat, lon) == {i \in DOMAIN RuleOrder : RuleHolds(RuleOrder[i], lat, lon)}

\* C4: for every coordinate of the valid range the classifier returns one
\* RegionType: the type of the first satisfied rule in the order Ocean,
\* Desert, ForestTropical, ForestTemperate, Tundra, Mountain, Coastal, Urban,
\* Agricultural, and Grassland exactly when no rule is satisfied.
C4_FirstRuleWins ==
    fpc = "out" =>
        LET S == Satisfied(fin[1], fin[2]) IN
        /\ fout \in RegionType
        /\ (fout = "GRASSLAND") <=> (S = {})
        /\ S # {} =>
             \E i \in S : /\ \A j \in S : i <= j
                          /\ fout = RuleOrder[i]

\* a coordinate where two rules hold and the earlier one decides: the centre
\* of the Mumbai box lies in an ocean band
C4_Witness ==
    /\ fpc = "out"
    /\ fin = <<191, 729>>
    /\ Cardinality(Satisfied(fin[1], fin[2])) > 1
    /\ fout = "OCEAN"

\* C5: classify(40.7, -74.0) returns Urban.
C5_NewYorkUrban ==
    (fpc = "out" /\ fin = <<407, -740>>) => fout = "URBAN"

\* C6: classify(0, 10) is Ocean, classify(70, 0) is Tundra and
\* classify(27, 0) is Desert, lon = 0 lying in neither open ocean band next
\* to it so that the Ocean rule, checked before, does not match.
C6_ReferencePoints ==
    fpc = "out" =>
        /\ fin = <<0, 100>> => fout = "OCEAN"
        /\ fin = <<700, 0>> => fout = "TUNDRA"
        /\ fin = <<270, 0>> => fout = "DESERT"

C6_Witness ==
    /\ fpc = "out"
    /\ fin = <<270, 0>>
    /\ fout = "DESERT"

\* a coordinate of each type, among those SpecRegion classifies
RegionExample ==
    [r \in RegionType |->
        CASE r = "OCEAN" -> <<0, 100>>
          [] r = "DESERT" -> <<270, 0>>
          [] r = "FOREST_TROPICAL" -> <<0, 200>>
          [] r = "FOREST_TEMPERATE" -> <<500, 100>>
          [] r = "TUNDRA" -> <<700, 0>>
          [] r = "MOUNTAIN" -> <<400, -1051>>
          [] r = "COASTAL" -> <<-400, 0>>
          [] r = "URBAN" -> <<-235, -466>>
          [] r = "AGRICULTURAL" -> <<351, -800>>
          [] r = "GRASSLAND" -> <<500, 600>>]

\* C24: every one of the 10 RegionType variants is returned by the
\* classifier for a coordinate of the valid range: no rule of the cascade,
\* the city boxes and the agricultural bands included, is shadowed by the
\* rules checked before it.
C24_EveryRegionReturned ==
    /\ \A r \in RegionType :
          LET p == RegionExample[r]
          IN /\ p \in LatSamples \X LonSamples
             /\ DetermineRegionType(p[1], p[2]) = r
    /\ fpc = "out" => \A r \in RegionType : fin = RegionExample[r] => fout = r

\* the classifier has returned Agricultural, the type of the rule checked
\* last, at a coordinate no earlier rule claims
C24_Witness ==
    /\ fpc = "out"
    /\ fin = RegionExample["AGRICULTURAL"]
    /\ Satisfied(fin[1], fin[2]) = {9}
    /\ fout = "AGRICULTURAL"

(***************************************************************************)
(* Claims about the feature extractor (under SpecTime)                     *)
(***************************************************************************)
\* C7: every month 1..12 gets exactly one season (3-5 spring, 6-8 summer,
\* 9-11 fall, 12/1/2 winter) and every hour 0..23 exactly one time of day
\* (5-10 morning, 11-15 afternoon, 16-20 evening, 21-4 night).
C7_SeasonAndTimeOfDayPartition ==
    fpc = "out" =>
        /\ fout.season \in Seasons
        /\ fout.time_of_day \in TimesOfDay
        /\ (fout.season = "spring") <=> (fin.month \in {3, 4, 5})
        /\ (fout.season = "summer") <=> (fin.month \in {6, 7, 8})
        /\ (fout.season = "fall") <=> (fin.month \in {9, 10, 11})
        /\ (fout.season = "winter") <=> (fin.month \in {12, 1, 2})
        /\ (fout.time_of_day = "morning") <=> (fin.hour \in 5..10)
        /\ (fout.time_of_day = "afternoon") <=> (fin.hour \in 11..15)
        /\ (fout.time_of_day = "evening") <=> (fin.hour \in 16..20)
        /\ (fout.time_of_day = "night") <=> (fin.hour \in (21..23) \cup (0..4))

\* the two labels that come from an else branch: December, and an hour
\* after midnight
C7_Witness ==
    /\ fpc = "out"
    /\ fin.month = 12 /\ fin.hour = 4
    /\ fout.season = "winter" /\ fout.time_of_day = "night"

(***************************************************************************)
(* Claims about predict (under Spec, SpecSeq and SpecNorm)                 *)
(***************************************************************************)
\* a call that returned a result without the key 'error'
Succeeded(c) == req[c].pc = "done" /\ "error" \notin DOMAIN req[c].ret

\* C1: in every non-error result of predict the final BME688 humidity lies
\* within [10, 100] and the final BME688 pressure within [950, 1050].
C1_HumidityAndPressureInRange ==
    \A c \in Callers :
        Succeeded(c) =>
            /\ 10000 <= req[c].ret["BME688"].humidity
            /\ req[c].ret["BME688"].humidity <= 100000
            /\ 950000 <= req[c].ret["BME688"].pressure
            /\ req[c].ret["BME688"].pressure <= 1050000

PMKeys == {"PM1.0", "PM2.5", "PM10"}

\* C2: in every non-error result of predict the final PM1.0, PM2.5 and
\* PM10 values are not negative; neither are they after the synthesis step
\* (floored at 0 after the noise) nor after the calibration that follows.
C2_ParticulatesNotNegative ==
    \A c \in Callers :
        /\ req[c].pc \in {"constrain", "assemble"} =>
               \A k \in PMKeys : req[c].results[k].value >= 0
        /\ Succeeded(c) => \A k \in PMKeys : req[c].ret[k].value >= 0

\* a result for an urban point, whose particulate values the calibration
\* multiplied by 1.3, with noise drawn
C2_Witness ==
    \E c \in Callers :
        /\ Succeeded(c)
        /\ ~noise_fixed
        /\ req[c].region_type = "URBAN"
        /\ \A k \in PMKeys : req[c].ret[k].value > 0

ErrorKeys == {"error", "message"}

ResultKeys == {"BME688", "MCP9808", "CO2", "VOC", "PM1.0", "PM2.5", "PM10",
               "metadata"}

\* C3: predict never raises: for every input, a malformed date or time and
\* a model call that raises included, what it returns is either a tagged
\* error with the keys 'error' and 'message' and no sensor key, or a full
\* result with BME688, MCP9808, CO2, VOC, PM1.0, PM2.5, PM10 and metadata
\* and no key 'error'.
C3_ErrorOrFullResult ==
    \A c \in Callers :
        req[c].pc = "done" =>
            \/ DOMAIN req[c].ret = ErrorKeys
            \/ DOMAIN req[c].ret = ResultKeys

\* the model raised and predict returned the tagged error
C3_Witness ==
    \E c \in Callers :
        /\ req[c].pc = "done"
        /\ model = "failing"
        /\ req[c].model_calls = 1
        /\ DOMAIN req[c].ret = ErrorKeys
        /\ req[c].ret.message = "Prediction failed"

\* C8: for any finite model mean field, a constant one included, the
\* normalized activity (mean - min) / (max - min + 1e-7) lies within [0, 1].
C8_NormalizedActivityInUnitInterval ==
    fpc = "out" => (0 <= fout.normalized_mean /\ fout.normalized_mean <= 10000)

\* C9: the uncertainty in the metadata of every non-error result is >= 0.
C9_UncertaintyNotNegative ==
    \A c \in Callers : Succeeded(c) => req[c].ret["metadata"].uncertainty >= 0

\* C10: with the noise fixed and a deterministic model, two calls of predict
\* with the same (date, lat, lon, time) return the same result, whatever
\* other calls are made on the predictor between them.
C10_Deterministic ==
    \A c \in Callers :
        (/\ noise_fixed
         /\ log # <<>>
         /\ req[c].pc = "done"
         /\ Arguments(req[c]) = log[1].arguments)
        => req[c].ret = log[1].ret

\* a full result returned a second time, after a call with other arguments
C10_Witness ==
    \E c \in Callers :
        /\ noise_fixed
        /\ log # <<>>
        /\ log[1].other_calls
        /\ Succeeded(c)
        /\ Arguments(req[c]) = log[1].arguments
        /\ req[c].ret = log[1].ret

\* C11: predict clamps a latitude outside [-90, 90] and a longitude outside
\* [-180, 180] into the range before using them, so that what it returns is
\* the result for the clamped coordinates; a malformed date or time gives an
\* error result.
C11_CoordinatesClamped ==
    \A c \in Callers :
        (req[c].pc = "done" /\ noise_fixed) =>
            /\ req[c].ret = Predict(req[c].date_str, ClampLat(req[c].lat),
                                    ClampLon(req[c].lon), req[c].time_str, rng)
            /\ IsException(Strptime(req[c].date_str, req[c].time_str))
                   => DOMAIN req[c].ret = ErrorKeys

(***************************************************************************)
(* Claims about the constructor (under SpecConstruct)                      *)
(***************************************************************************)
\* a file the constructor accepts
GoodFile(f) ==
    /\ f.exists
    /\ f.loads
    /\ ~IsException(ModelPredict(f.kind, <<<<0, 0, 0>>, <<0, 0, 0>>, <<0, 0, 0>>>>))
    /\ f.shape = ExpectedShape

\* C12: a predictor exists only if the model loaded and the self-test
\* returned the shape (1, 128, 128, 2): with a missing file, a load that
\* raises, a self-test that raises or another shape, the constructor raises
\* and no predict call runs on the instance.
C12_ConstructedOnlyIfValidated ==
    /\ fpc = "constructed" => (GoodFile(fin) /\ model = fin.kind)
    /\ fpc \in {"tables", "constructed"} => GoodFile(fin)
    /\ fpc = "raised" => (~GoodFile(fin) /\ fout = Exception("RuntimeError"))
    /\ \A c \in Callers : req[c].pc # "idle" => fpc = "constructed"

\* the self-test ran without raising, returned another shape, and the
\* constructor raised
C12_Witness ==
    /\ fpc = "raised"
    /\ fin.exists /\ fin.loads
    /\ fin.kind = "smooth"
    /\ fin.shape # ExpectedShape
    /\ model = "smooth"

(***************************************************************************)
(* Claims about the control flow of predict (under Spec)                   *)
(***************************************************************************)
\* how many times step s occurs in the steps of a call
RECURSIVE Count(_, _)
Count(steps, s) ==
    IF steps = <<>> THEN 0
    ELSE (IF Head(steps) = s THEN 1 ELSE 0) + Count(Tail(steps), s)

\* C13: within one predict call the model is invoked at most once; when the
\* invocation raises, the call ends with the tagged error result without a
\* second invocation and without the adjustment, synthesis and constraint
\* steps.
C13_ModelInvokedAtMostOnce ==
    \A c \in Callers :
        /\ req[c].model_calls <= 1
        /\ req[c].model_calls = Count(req[c].steps, "model")
        /\ (req[c].pc = "done" /\ model = "failing" /\ req[c].model_calls > 0) =>
               /\ req[c].steps = <<"parse", "patch", "model">>
               /\ DOMAIN req[c].ret = ErrorKeys
               /\ req[c].ret.message = "Prediction failed"

\* the model raised and the call ended after that one invocation
C13_Witness ==
    \E c \in Callers :
        /\ req[c].pc = "done"
        /\ model = "failing"
        /\ req[c].steps = <<"parse", "patch", "model">>
        /\ "error" \in DOMAIN req[c].ret

\* C14: after any sequence of predict calls, successful or failing, the
\* tables regional_base_values, seasonal_params, diurnal_params and
\* calibration_factors hold the values they had after construction; the
\* temporal adjustment never writes into the baseline record of a region.
C14_TablesUnchanged ==
    /\ regional_base_values = RegionalBaseValues
    /\ seasonal_params = SeasonalParams
    /\ diurnal_params = DiurnalParams
    /\ calibration_factors = CalibrationFactors

\* a third call at least has returned a full result, computed from adjusted
\* values that differ from the baseline of its region, which is intact
C14_Witness ==
    \E c \in Callers :
        /\ log # <<>>
        /\ log[1].other_calls
        /\ Succeeded(c)
        /\ req[c].adjusted_values # RegionalBaseValues[req[c].region_type]
        /\ regional_base_values[req[c].region_type]
               = RegionalBaseValues[req[c].region_type]

\* C15: for any interleaving of the steps of two concurrent predict calls
\* on the same predictor, with the noise fixed, each call returns the result
\* it returns when run alone.
C15_ConcurrentCallsIndependent ==
    \A c \in DOMAIN req :
        req[c].pc = "done" =>
            req[c].ret = Predict(req[c].date_str, req[c].lat, req[c].lon,
                                 req[c].time_str, rng)

\* two calls with different coordinates have both run to a full result
\* before either returned
C15_Witness ==
    /\ DOMAIN req = ConcCallers
    /\ \A c \in ConcCallers : Succeeded(c)
    /\ req[1].region_type # req[2].region_type

\* C16: predict called without a time behaves as if called with "00:00":
\* with the noise fixed it returns what the call with "00:00" returns, and
\* the metadata of a full result reports the time "00:00" and the time of
\* day "night".
C16_AbsentTimeIsMidnight ==
    \A c \in Callers :
        (req[c].pc = "done" /\ noise_fixed /\ req[c].time_str = None) =>
            /\ req[c].ret = Predict(req[c].date_str, req[c].lat, req[c].lon,
                                    <<0, 0>>, rng)
            /\ Succeeded(c) =>
                   /\ req[c].ret["metadata"].time = <<0, 0>>
                   /\ req[c].ret["metadata"].time_of_day = "night"

\* a call without a time returned a full result
C16_Witness ==
    \E c \in Callers :
        /\ Succeeded(c)
        /\ noise_fixed
        /\ req[c].time_str = None
        /\ req[c].ret["metadata"].time = <<0, 0>>
        /\ req[c].dt.hour = 0 /\ req[c].dt.minute = 0

(***************************************************************************)
(* Claims about the tables and the temporal adjustment                     *)
(***************************************************************************)
ParamKeys == {"temp_shift", "humidity_shift", "pollution_factor"}

\* one of the .get calls of _apply_temporal_adjustments returns its default
FallbackTaken(dt, region_type) ==
    LET temporal_features == DatetimeToFeatures(dt)
    IN \/ temporal_features.season \notin DOMAIN seasonal_params
       \/ temporal_features.time_of_day \notin DOMAIN diurnal_params
       \/ \E k \in ParamKeys :
            \/ k \notin DOMAIN seasonal_params[temporal_features.season]
            \/ k \notin DOMAIN diurnal_params[temporal_features.time_of_day]
            \/ region_type \notin DOMAIN seasonal_params[temporal_features.season][k]
            \/ region_type \notin DOMAIN diurnal_params[temporal_features.time_of_day][k]

\* C17: the tables are total: each of the 10 region types has a 9-field
\* entry in regional_base_values and an entry in temp_shift, humidity_shift
\* and pollution_factor of each of the 4 seasons and 4 times of day, so that
\* for every region and timestamp the baseline lookup succeeds and no
\* default of _apply_temporal_adjustments is taken.
C17_TablesTotal ==
    /\ Cardinality(RegionType) = 10
    /\ Cardinality(Fields) = 9
    /\ DOMAIN regional_base_values = RegionType
    /\ \A r \in RegionType : DOMAIN regional_base_values[r] = Fields
    /\ DOMAIN seasonal_params = {"spring", "summer", "fall", "winter"}
    /\ DOMAIN diurnal_params = {"morning", "afternoon", "evening", "night"}
    /\ \A t \in DOMAIN seasonal_params :
           /\ DOMAIN seasonal_params[t] = ParamKeys
           /\ \A k \in ParamKeys : DOMAIN seasonal_params[t][k] = RegionType
    /\ \A t \in DOMAIN diurnal_params :
           /\ DOMAIN diurnal_params[t] = ParamKeys
           /\ \A k \in ParamKeys : DOMAIN diurnal_params[t][k] = RegionType
    /\ \A c \in Callers :
           req[c].pc \in {"synthesize", "constrain", "assemble"} =>
               /\ req[c].region_type \in DOMAIN regional_base_values
               /\ ~FallbackTaken(req[c].dt, req[c].region_type)

\* the adjustment has run for a tundra point on an autumn night
C17_Witness ==
    \E c \in Callers :
        /\ req[c].pc = "synthesize"
        /\ req[c].region_type = "TUNDRA"
        /\ req[c].dt.month = 10
        /\ req[c].dt.hour = 23

\* the season and time-of-day factor of a region at dt, from the tables
SeasonFactor(dt, r) == SeasonalParams[Season(dt.month)]["pollution_factor"][r]

DiurnalFactor(dt, r) == DiurnalParams[TimeOfDay(dt.hour)]["pollution_factor"][r]

HumidityShift(dt, r) ==
    SeasonalParams[Season(dt.month)]["humidity_shift"][r]
    + DiurnalParams[TimeOfDay(dt.hour)]["humidity_shift"][r]

\* C18: for every region, season and time of day _apply_temporal_adjustments
\* returns CO2 and PM1.0 equal to the baseline times (season factor x diurnal
\* factor), VOC that product x 1.2 for Urban and x 1.1 otherwise, PM2.5
\* x 1.3 for Urban and x 1.2 otherwise, PM10 x 1.4 for Urban and x 1.2
\* otherwise, humidity equal to the baseline plus the two humidity shifts
\* clamped to [10, 100], and pressure and gas_resistance equal to the
\* baseline.
C18_TemporalAdjustment ==
    fpc = "out" =>
        LET r == fin.region_type
            base == RegionalBaseValues[r]
            product == (SeasonFactor(fin.dt, r) * DiurnalFactor(fin.dt, r)) \div 10000
            times(v, product_and_extra) == MulF(v, product_and_extra)
            extra(urban, other) == (product * (IF r = "URBAN" THEN urban ELSE other)) \div 10000
            humidity == base["humidity"] + HumidityShift(fin.dt, r)
        IN /\ fout["CO2"] = times(base["CO2"], product)
           /\ fout["PM1.0"] = times(base["PM1.0"], product)
           /\ fout["VOC"] = times(base["VOC"], extra(12000, 11000))
           /\ fout["PM2.5"] = times(base["PM2.5"], extra(13000, 12000))
           /\ fout["PM10"] = times(base["PM10"], extra(14000, 12000))
           /\ fout["humidity"] =
                  (IF humidity > 100000 THEN 100000
                   ELSE IF humidity < 10000 THEN 10000 ELSE humidity)
           /\ fout["pressure"] = base["pressure"]
           /\ fout["gas_resistance"] = base["gas_resistance"]

\* the adjustment of an urban baseline on a winter evening, whose combined
\* factor is 1.6 x 1.4
C18_Witness ==
    /\ fpc = "out"
    /\ fin.region_type = "URBAN"
    /\ fin.dt.month = 1
    /\ fin.dt.hour = 18
    /\ fout["CO2"] = MulF(RegionalBaseValues["URBAN"]["CO2"], 22400)
    /\ fout["PM10"] = MulF(RegionalBaseValues["URBAN"]["PM10"], 31360)

StepOrder ==
    <<"parse", "patch", "model", "normalize", "adjust", "synthesize",
      "constrain", "assemble">>

\* the state of the generator before the draws of the last synthesis
RngBefore ==
    IF noise_fixed THEN rng
    ELSE (rng + Len(NoiseParams) * RngLevels - Len(NoiseParams)) % RngLevels

\* C19: every successful predict call runs its steps in the order parse,
\* tensor, model, normalized activity, adjustment, synthesis with noise,
\* physical constraints, metadata; the constraints come after the noise, so
\* each final CO2, VOC and PM value is its calibration multiplier times the
\* synthesized value that already carries the noise.
C19_StepOrder ==
    \A c \in Callers :
        /\ Len(req[c].steps) <= Len(StepOrder)
        /\ req[c].steps = SubSeq(StepOrder, 1, Len(req[c].steps))
        /\ Succeeded(c) =>
            /\ req[c].steps = StepOrder
            /\ LET noised == CalculateEnhancedValues(req[c].normalized_mean,
                                                     req[c].adjusted_values, RngBefore)
                   area_type == IF req[c].region_type = "URBAN" THEN "urban" ELSE "rural"
                   calibration == CalibrationFactors[area_type]
               IN /\ req[c].ret["CO2"].value
                         = MulF(noised["CO2"].value, calibration["CO2"])
                  /\ req[c].ret["VOC"].value
                         = MulF(noised["VOC"].value, calibration["VOC"])
                  /\ \A k \in PMKeys :
                         req[c].ret[k].value = MulF(noised[k].value, calibration["PM"])

\* a full result for an urban point with noise drawn, whose CO2 is 1.1
\* times the synthesized value
C19_Witness ==
    \E c \in Callers :
        /\ Succeeded(c)
        /\ ~noise_fixed
        /\ req[c].region_type = "URBAN"
        /\ req[c].steps = StepOrder
        /\ req[c].ret["CO2"].value
               > CalculateEnhancedValues(req[c].normalized_mean,
                                         req[c].adjusted_values, RngBefore)["CO2"].value

(***************************************************************************)
(* Claims about the noise (under Spec)                                     *)
(***************************************************************************)
\* the values of a synthesized dictionary in the order of RawValues
Flat(values) ==
    << values["BME688"].temperature, values["BME688"].humidity,
       values["BME688"].pressure, values["BME688"].gas_resistance,
       values["MCP9808"].temperature, values["CO2"].value, values["VOC"].value,
       values["PM1.0"].value, values["PM2.5"].value, values["PM10"].value >>

\* the largest distance of a noised value from its value v before the noise,
\* for a relative scale in units of 1e-4 and a least noise in thousandths
NoiseBound(v, relative_scale, absolute_min_noise) ==
    LET relative == MulF(IF v < 0 THEN -v ELSE v, relative_scale)
    IN IF relative > absolute_min_noise THEN relative ELSE absolute_min_noise

\* C20: in _calculate_enhanced_values every field's noised value differs
\* from its value v before the noise by at most max(|v| x relative_scale,
\* absolute_min_noise), the pairs being temperature (0.01, 0.1), humidity
\* (0.005, 0.1), pressure (0.001, 0.1), gas_resistance (0.02, 0.1), CO2
\* (0.02, 1.0), VOC (0.02, 0.5) and PM1.0, PM2.5, PM10 (0.05, 0.1).
C20_NoiseBounded ==
    \A c \in Callers :
        req[c].pc = "constrain" =>
            LET v == RawValues(req[c].normalized_mean, req[c].adjusted_values)
                noised == Flat(req[c].results)
                within(i, relative_scale, absolute_min_noise) ==
                    /\ noised[i] - v[i] <= NoiseBound(v[i], relative_scale, absolute_min_noise)
                    /\ v[i] - noised[i] <= NoiseBound(v[i], relative_scale, absolute_min_noise)
            IN /\ within(1, 100, 100)
               /\ within(2, 50, 100)
               /\ within(3, 10, 100)
               /\ within(4, 200, 100)
               /\ within(5, 100, 100)
               /\ within(6, 200, 1000)
               /\ within(7, 200, 500)
               /\ within(8, 500, 100)
               /\ within(9, 500, 100)
               /\ within(10, 500, 100)

\* noise was drawn and the CO2 value lies at the lower end of its bound,
\* away from the value before the noise
C20_Witness ==
    \E c \in Callers :
        /\ req[c].pc = "constrain"
        /\ ~noise_fixed
        /\ LET v == RawValues(req[c].normalized_mean, req[c].adjusted_values)
           IN /\ v[6] - req[c].results["CO2"].value = NoiseBound(v[6], 200, 1000)
              /\ NoiseBound(v[6], 200, 1000) > 1000

(***************************************************************************)
(* Claims about the physical constraints (under Spec)                      *)
(***************************************************************************)
\* C21: _apply_physics_constraints lowers the BME688 and the MCP9808
\* temperature by the same amount 2.0 x elevation_factor, scales the pressure
\* by (1 - elevation_factor x 0.00012), multiplies CO2 by 1.1, VOC by 1.2
\* and each PM value by 1.3 for an Urban point and leaves them unchanged for
\* any other, and leaves humidity and gas_resistance unchanged.
C21_PhysicsFrame ==
    \A c \in Callers :
        req[c].pc = "assemble" =>
            LET before == CalculateEnhancedValues(req[c].normalized_mean,
                                                  req[c].adjusted_values, RngBefore)
                after == req[c].results
                elevation_factor == ElevationFactor(GetElevation(req[c].lat, req[c].lon))
                lowered == (2000 * elevation_factor) \div 10000
                urban == req[c].region_type = "URBAN"
            IN /\ DOMAIN after = DOMAIN before
               /\ after["BME688"].temperature = before["BME688"].temperature - lowered
               /\ after["MCP9808"].temperature = before["MCP9808"].temperature - lowered
               /\ after["BME688"].pressure
                      = before["BME688"].pressure
                        - (MulF(before["BME688"].pressure, elevation_factor) * 12) \div 100000
               /\ after["BME688"].humidity = before["BME688"].humidity
               /\ after["BME688"].gas_resistance = before["BME688"].gas_resistance
               /\ after["CO2"].value
                      = (IF urban THEN MulF(before["CO2"].value, 11000)
                         ELSE before["CO2"].value)
               /\ after["VOC"].value
                      = (IF urban THEN MulF(before["VOC"].value, 12000)
                         ELSE before["VOC"].value)
               /\ \A k \in PMKeys :
                      after[k].value = (IF urban THEN MulF(before[k].value, 13000)
                                        ELSE before[k].value)

\* the constraints have been applied to the values of a mountain point:
\* both temperatures are 1.0 lower and CO2 is as it was
C21_Witness ==
    \E c \in Callers :
        /\ req[c].pc = "assemble"
        /\ req[c].region_type = "MOUNTAIN"
        /\ LET before == CalculateEnhancedValues(req[c].normalized_mean,
                                                 req[c].adjusted_values, RngBefore)
           IN /\ req[c].results["MCP9808"].temperature
                     = before["MCP9808"].temperature - 1000
              /\ req[c].results["CO2"].value = before["CO2"].value

====
